---- MODULE Spec2Model ----
(***************************************************************************)
(* Transcript indexing and search: the embedding client                    *)
(* (lib/textProcessing.ts), the hierarchical chunking pipeline             *)
(* (lib/multiLevelChunking.ts with lib/chapterSegmentation.ts), the upload *)
(* route (app/api/upload-transcript/route.ts), the search helpers          *)
(* (lib/smartSearch.ts) and the search route                               *)
(* (app/api/search-transcripts/route.ts).                                  *)
(*                                                                         *)
(* The specifications share the variables:                                 *)
(*   SpecEmbed      one call of getEmbeddings(texts)                       *)
(*   SpecEmbedFair  the same, every pending await eventually resumed       *)
(*   Spec           one call of createMultiLevelChunks(plainText, markdown)*)
(*   SpecTwice      two calls of it on the same arguments and answers      *)
(*   SpecUpload     one POST of the upload route (chunking, embedding,     *)
(*                  BEGIN / INSERT ... / COMMIT or ROLLBACK)               *)
(*   SpecShared     two POSTs of the upload route sending their statements *)
(*                  through the one client of lib/db                       *)
(*   SpecSearch     one POST of the search route                           *)
(*   SpecNormalize, SpecClassify, SpecWeight, SpecContext                  *)
(*                  one call of normalizeTimestamp, classifyQuery,         *)
(*                  calculateLevelWeight, assembleContext                  *)
(*   SpecExtract, SpecBoundaries                                           *)
(*                  one call of extractTimestampsAndCleanText,             *)
(*                  detectTopicBoundaries                                  *)
(***************************************************************************)
EXTENDS Integers, Sequences, FiniteSets, TLC

VARIABLES
    apiKey,       \* process.env.DEEPINFRA_API_KEY is set
    itemLimit,    \* size of the transcript at hand: its anchors, chapters and
                  \* sentence candidates, taken together, are at most this many
    \* ---- getEmbeddings ----
    ePc,          \* position in getEmbeddings
    texts,        \* the argument of getEmbeddings
    eI,           \* loop variable i of the batching loop
    eStack,       \* embedBatch calls not yet issued, next one first
    eBatchOut,    \* vectors of the current top-level embedBatch call, in order
    embeddings,   \* the local array embeddings
    eResult,      \* the value getEmbeddings resolved with, or NoResult
    eLast,        \* the last service call: the batch sent and the answer
    \* ---- createMultiLevelChunks ----
    cPc,          \* position in createMultiLevelChunks
    plainLen,     \* plainText.length
    cleanLen,     \* cleanText.length
    timestampedLines, \* the anchors: [timestamp, charIndex], in order of encounter
    chapters,     \* the local chapters (identified, then matched)
    nextRow,      \* match scores of the next chapter's firstSentence, one per anchor
    cI,           \* index of the running map / forEach callback (0-based)
    allChunks,    \* the local array allChunks
    chunkCounter, \* the local chunkCounter
    paragraphDocs,\* the documents the paragraph splitter returned
    sentences,    \* the filtered sentence candidates
    \* ---- POST /api/upload-transcript ----
    uPc,          \* position in POST (in SpecShared these three hold one
                  \* value per request)
    uI,           \* loop variable i of the insert loop
    insertedChunks, \* the local map from chunk_index to database id
    db,           \* the store: durable rows, rows pending in the open
                  \* transaction, whether one is open, the next SERIAL id
    \* ---- POST /api/search-transcripts ----
    sPc,          \* position in POST
    sRequest,     \* the parsed request body
    preferredLevels, \* the local preferredLevels
    searchRows,   \* searchResult.rows, in the order the SELECT returned them
    sResponse,    \* the response: its status and, on success, its results
    \* ---- a second run of createMultiLevelChunks on the same input ----
    replay,       \* "off", "first" (first run) or "second" (second run)
    tape,         \* what the first run read and was answered, in order
    firstPc,      \* how the first run ended
    firstChunks,  \* what the first run returned
    \* ---- one call of a pure function ----
    call          \* the function, its arguments and, once it returned, its value

embedVars == <<ePc, texts, eI, eStack, eBatchOut, embeddings, eResult, eLast>>

chunkVars == <<cPc, plainLen, cleanLen, timestampedLines, chapters, nextRow, cI,
               allChunks, chunkCounter, paragraphDocs, sentences>>

uploadVars == <<uPc, uI, insertedChunks, db>>

searchVars == <<sPc, sRequest, preferredLevels, searchRows, sResponse>>

replayVars == <<replay, tape, firstPc, firstChunks>>

vars == <<apiKey, itemLimit, embedVars, chunkVars, uploadVars, searchVars,
          replayVars, call>>

\* ------------------------------------------------------------------ bounds

\* Largest number of texts handed to getEmbeddings.
MaxTexts == 100
\* Character offsets are drawn from the first MaxPos + 1 points of a grid.
MaxPos == 2
\* Largest number of anchors (timestamped lines), chapters returned by the
\* titling step and sentence candidates of one transcript, taken together.
MaxItems == 2
\* The same for a transcript that is uploaded, or chunked twice.
UploadItems == MaxItems - 1
\* Largest number of children and of siblings a search hit has among the
\* candidates.
MaxChildren == 4
MaxSiblings == 3

\* --------------------------------------------------------- JS array helpers

Min(a, b) == IF a < b THEN a ELSE b
Max(a, b) == IF a > b THEN a ELSE b

\* Array.prototype.slice(from, to) on 0-based indexes, to clipped to the length.
Slice(s, from, to) == SubSeq(s, from + 1, Min(to, Len(s)))

\* Math.ceil(n / 2)
CeilHalfFull(n) == n
CeilHalf(n) == (n + 1) \div 2

\* ------------------------------------------- a component that is not running

NoResult == <<[of |-> 0]>>
NoCall == [batch |-> <<>>, status |-> 0]

\* getEmbeddings has not been called.
EmbedIdle ==
    /\ ePc = "idle"
    /\ texts = <<>>
    /\ eI = 0
    /\ eStack = <<>>
    /\ eBatchOut = <<>>
    /\ embeddings = <<>>
    /\ eResult = NoResult
    /\ eLast = NoCall

\* createMultiLevelChunks has not been called.
ChunkIdle ==
    /\ cPc = "idle"
    /\ plainLen = 0
    /\ cleanLen = 0
    /\ timestampedLines = <<>>
    /\ chapters = <<>>
    /\ nextRow = <<>>
    /\ cI = 0
    /\ allChunks = <<>>
    /\ chunkCounter = 0
    /\ paragraphDocs = <<>>
    /\ sentences = <<>>

\* The store before the upload: no row of the transcript at hand, no open
\* transaction, the SERIAL id past the rows of earlier transcripts.
FirstId == 101
EmptyDb == [rows |-> <<>>, pending |-> <<>>, inTx |-> FALSE, nextId |-> FirstId]

\* POST has not been called.
UploadIdle ==
    /\ uPc = "idle"
    /\ uI = 0
    /\ insertedChunks = <<>>
    /\ db = EmptyDb

\* The search route has not been called.
NoRequest == [query |-> <<>>, levels |-> <<>>, hasLevels |-> FALSE, maxResults |-> 0]
NoResponse == [status |-> 0, results |-> <<>>]
SearchIdle ==
    /\ sPc = "idle"
    /\ sRequest = NoRequest
    /\ preferredLevels = <<>>
    /\ searchRows = <<>>
    /\ sResponse = NoResponse

\* createMultiLevelChunks is run once, nothing is recorded.
ReplayOff ==
    /\ replay = "off"
    /\ tape = <<>>
    /\ firstPc = "none"
    /\ firstChunks = <<>>

\* No pure function is being called.
NoFunction == [fn |-> "none", args |-> <<>>, returned |-> FALSE, value |-> <<>>]
CallIdle == call = NoFunction

\* =================================================================
\* getEmbeddings (lib/textProcessing.ts)
\* =================================================================

MAX_BATCH_SIZE == 96

\* HTTP statuses the embedding service answers with; NetworkError stands for
\* fetch rejecting (no response at all).
NetworkError == -1
Statuses == {200, 400, 429, 500, 503}
Outcomes == Statuses \cup {NetworkError}

\* response.ok
ResponseOk(status) == status >= 200 /\ status <= 299

\* The vector the service computes for one text.  A text is identified by a
\* number; its vector is tagged with the text it was computed from.
EmbeddingOf(t) == [of |-> t]

\* A successful answer: data.data.map(item => item.embedding), one item per
\* input sent, in order.
ServiceReply(batch) == [k \in 1..Len(batch) |-> EmbeddingOf(batch[k])]

\* The retry condition of embedBatch.
ShouldSplitOn4xx(len, status) == len > 1 /\ status >= 400
ShouldSplit(len, status) == len > 1 /\ status >= 500

\* The two halves embedBatch retries, in the order their results are spread.
SplitBatchSwapped(batch) ==
    LET mid == CeilHalf(Len(batch))
    IN  <<Slice(batch, mid, Len(batch)), Slice(batch, 0, mid)>>
SplitBatch(batch) ==
    LET mid == CeilHalf(Len(batch))
    IN  <<Slice(batch, 0, mid), Slice(batch, mid, Len(batch))>>

InitEmbed ==
    /\ apiKey \in BOOLEAN
    /\ ePc = "start"
    /\ \E n \in 0..MaxTexts : texts = [k \in 1..n |-> k]
    /\ eI = 0
    /\ eStack = <<>>
    /\ eBatchOut = <<>>
    /\ embeddings = <<>>
    /\ eResult = NoResult
    /\ eLast = NoCall
    /\ ChunkIdle
    /\ itemLimit = MaxItems
    /\ UploadIdle
    /\ SearchIdle
    /\ ReplayOff
    /\ CallIdle

\* Lines 50-54: the credential check.
EmbedCheckKey ==
    /\ ePc = "start"
    /\ ePc' = IF apiKey THEN "loop" ELSE "raised"
    /\ UNCHANGED <<apiKey, texts, eI, eStack, eBatchOut, embeddings, eResult, eLast>>
    /\ UNCHANGED <<itemLimit, chunkVars, uploadVars, searchVars, replayVars, call>>

\* Lines 94-96: the loop test and the slice of the next batch.
EmbedNextBatch ==
    /\ ePc = "loop"
    /\ eI < Len(texts)
    /\ eStack' = <<Slice(texts, eI, eI + MAX_BATCH_SIZE)>>
    /\ eBatchOut' = <<>>
    /\ ePc' = "call"
    /\ UNCHANGED <<apiKey, texts, eI, embeddings, eResult, eLast>>
    /\ UNCHANGED <<itemLimit, chunkVars, uploadVars, searchVars, replayVars, call>>

\* Line 100: the loop is over, getEmbeddings resolves with embeddings.
EmbedReturn ==
    /\ ePc = "loop"
    /\ eI >= Len(texts)
    /\ eResult' = embeddings
    /\ ePc' = "returned"
    /\ UNCHANGED <<apiKey, texts, eI, eStack, eBatchOut, embeddings, eLast>>
    /\ UNCHANGED <<itemLimit, chunkVars, uploadVars, searchVars, replayVars, call>>

\* Lines 60-91: one embedBatch call.  The recursion is depth first and the
\* halves are awaited left to right, so the calls not yet issued form a stack
\* and the vectors arrive in the order the spreads concatenate them.
EmbedBatchCall(status) ==
    /\ ePc = "call"
    /\ eStack # <<>>
    /\ LET batch == Head(eStack)
           rest == Tail(eStack)
       IN  /\ eLast' = [batch |-> batch, status |-> status]
           /\ IF ResponseOk(status)
              THEN /\ eBatchOut' = eBatchOut \o ServiceReply(batch)
                   /\ eStack' = rest
                   /\ IF rest = <<>>
                      THEN \* lines 97 and 94: push(...batchEmbeddings); i += 96
                           /\ embeddings' = embeddings \o eBatchOut'
                           /\ eI' = eI + MAX_BATCH_SIZE
                           /\ ePc' = "loop"
                      ELSE UNCHANGED <<embeddings, eI, ePc>>
              ELSE IF status # NetworkError /\ ShouldSplit(Len(batch), status)
              THEN /\ eStack' = SplitBatch(batch) \o rest
                   /\ UNCHANGED <<eBatchOut, embeddings, eI, ePc>>
              ELSE \* line 86, or fetch rejecting: the error leaves every frame
                   /\ ePc' = "raised"
                   /\ UNCHANGED <<eStack, eBatchOut, embeddings, eI>>
    /\ UNCHANGED <<apiKey, texts, eResult>>
    /\ UNCHANGED <<itemLimit, chunkVars, uploadVars, searchVars, replayVars, call>>

EmbedCall == \E status \in Outcomes : EmbedBatchCall(status)

NextEmbed ==
    \/ EmbedCheckKey
    \/ EmbedNextBatch
    \/ EmbedCall
    \/ EmbedReturn

SpecEmbed == InitEmbed /\ [][NextEmbed]_vars

\* =================================================================
\* createMultiLevelChunks (lib/multiLevelChunking.ts) with
\* extractTimestampsAndCleanText, identifyChaptersWithLLM and
\* matchChaptersToTimestamps (lib/chapterSegmentation.ts)
\* =================================================================
\*
\* Texts are represented by their lengths and by character offsets into them.
\* What the code derives from the characters themselves (the result of
\* indexOf, of a similarity score, of the splitters) is an input drawn from
\* the values the code can obtain.


\* Offsets into the transcript (plainText): 0, 850, 1100, 1950, 2200, ...
\* The gaps lie on both sides of the 800 of detectTopicBoundaries and below
\* the 1000 of the paragraph splitter.
Pos(k) == 550 * k + 300 * (k % 2)
PosSet == {Pos(k) : k \in 0..MaxPos}

\* Offsets into the clean text (the markdown without its timestamps), which
\* is another string than the transcript: 0, 450, 650, 1100, 1300, ...  The
\* gaps are 450 and the 200 a chapter text has to exceed.
CleanPos(k) == 325 * k + 125 * (k % 2)
CleanPosSet == {CleanPos(k) : k \in 0..MaxPos}

\* -------------------------------------------------------------- constants

\* An absent value: undefined, or the -1 of indexOf.
Undefined == -1

EpisodeTextCap == 8000
MinTopicLength == 200
ChunkSize == 1000
ChunkOverlap == 200
MinSentenceLength == 30
\* Similarity scores are held in hundredths.
MatchThreshold == 70
FuzzyThreshold == 40
MinBoundaryGap == 800

ZeroTs == "00:00:00"
EndTs == "99:99:99"
\* The normalized timestamp of the j-th anchor.
Stamp(j) == <<"00:01:00", "00:02:00", "00:03:00", "00:04:00", "00:05:00">>[j]

\* The ways a chat-completion call can end.
OracleOutcomes == {"ok", "http_error", "transport_error", "empty", "malformed", "too_long"}

\* generateEpisodeSummary: "raise", or the kind of summary returned.
GenerateEpisodeSummary(key, outcome) ==
    IF ~key THEN "raise"
    ELSE IF outcome \in {"ok", "too_long"} THEN "llm"
    ELSE "truncated"

\* extractGuestName: the kind of name returned; it never raises.
ExtractGuestName(key, outcome) ==
    IF ~key THEN "Guest Interview"
    ELSE IF outcome = "ok" THEN "llm"
    ELSE "Guest Interview"

\* One chunk (ChunkData).  Fields a level does not set are Undefined / "".
Chunk(level, index, parent, segStart, segEnd, charStart, len, tsStart, tsEnd, chapIdx, summary, guest) ==
    [chunk_level      |-> level,
     chunk_index      |-> index,
     parent_chunk_id  |-> parent,
     segment_start    |-> segStart,
     segment_end      |-> segEnd,
     char_start       |-> charStart,
     text_length      |-> len,
     timestamp_start  |-> tsStart,
     timestamp_end    |-> tsEnd,
     source_index     |-> chapIdx,
     summary          |-> summary,
     guest_name       |-> guest]

\* The provisional parent reference of a topic chunk.
TopicParentRef == 1

\* The state createMultiLevelChunks is entered in.
ChunkStart ==
    /\ cPc = "start"
    /\ plainLen \in PosSet
    /\ cleanLen = 0
    /\ timestampedLines = <<>>
    /\ chapters = <<>>
    /\ nextRow = <<>>
    /\ cI = 0
    /\ allChunks = <<>>
    /\ chunkCounter = 0
    /\ paragraphDocs = <<>>
    /\ sentences = <<>>

Init ==
    /\ apiKey \in BOOLEAN
    /\ itemLimit = MaxItems
    /\ EmbedIdle
    /\ ChunkStart
    /\ UploadIdle
    /\ SearchIdle
    /\ ReplayOff
    /\ CallIdle

\* What a step is answered by an oracle or by a function of the texts.  A
\* single run leaves the tape alone, the first of two runs writes it, the
\* second run reads it: the same text and the same answers.
TapeStep(step, input) ==
    /\ IF replay = "first" THEN tape' = Append(tape, [step |-> step, input |-> input])
       ELSE IF replay = "second"
       THEN /\ tape # <<>>
            /\ Head(tape).step = step
            /\ Head(tape).input = input
            /\ tape' = Tail(tape)
       ELSE UNCHANGED tape
    /\ UNCHANGED <<replay, firstPc, firstChunks>>

\* Lines 189-214: the two episode oracles and the episode chunk.
EpisodeChunk(sOutcome, gOutcome) ==
    /\ cPc = "start"
    /\ LET episodeSummary == GenerateEpisodeSummary(apiKey, sOutcome)
           guestName == ExtractGuestName(apiKey, gOutcome)
           textLen == IF plainLen > EpisodeTextCap THEN EpisodeTextCap + 3 ELSE plainLen
       IN  IF episodeSummary = "raise"
           THEN /\ cPc' = "raised"
                /\ UNCHANGED <<allChunks, chunkCounter>>
           ELSE /\ allChunks' = Append(allChunks,
                        Chunk("episode", chunkCounter, Undefined, Undefined, Undefined,
                              Undefined, textLen, ZeroTs, EndTs, Undefined,
                              episodeSummary, guestName))
                /\ chunkCounter' = chunkCounter + 1
                /\ cPc' = "extract"
    /\ TapeStep("episode", <<GenerateEpisodeSummary(apiKey, sOutcome),
                             ExtractGuestName(apiKey, gOutcome)>>)
    /\ UNCHANGED <<plainLen, cleanLen, timestampedLines, chapters, nextRow, cI,
                   paragraphDocs, sentences>>
    /\ UNCHANGED <<apiKey, itemLimit, embedVars, uploadVars, searchVars, call>>

CreateEpisodeChunk == \E sOutcome \in OracleOutcomes, gOutcome \in OracleOutcomes :
    EpisodeChunk(sOutcome, gOutcome)

\* The anchor lists extractTimestampsAndCleanText can return for a clean text
\* of length len: charIndex grows strictly (every anchor emits its text) and
\* stays below len.
RECURSIVE AnchorLists(_, _, _)
AnchorLists(from, len, n) ==
    {<<>>} \cup
    (IF n > itemLimit THEN {}
     ELSE UNION {
            {<<[timestamp |-> Stamp(n), charIndex |-> p]>> \o rest :
                 rest \in AnchorLists(p + 1, len, n + 1)} :
            p \in {q \in CleanPosSet : q >= from /\ q < len} })

\* Lines 224-226: extractTimestampsAndCleanText(originalMarkdown || plainText).
ExtractTimestamps ==
    /\ cPc = "extract"
    /\ \E len \in CleanPosSet :
         \E anchors \in AnchorLists(0, len, 1) :
            /\ cleanLen' = len
            /\ timestampedLines' = anchors
            /\ TapeStep("extract", <<len, anchors>>)
    /\ cPc' = "identify"
    /\ UNCHANGED <<plainLen, chapters, nextRow, cI, allChunks, chunkCounter,
                   paragraphDocs, sentences>>
    /\ UNCHANGED <<apiKey, itemLimit, embedVars, uploadVars, searchVars, call>>

\* ------------------------------------------------------ chapter detection

\* A chapter as identified: ok says the entry carries a string firstSentence,
\* literal that the firstSentence is a line of the clean text
\* (createFallbackChapters).  The four other fields are those
\* matchChaptersToTimestamps adds.
IdentifiedChapter(ok, literal) ==
    [ok |-> ok, literal |-> literal,
     startTimestamp |-> "", endTimestamp |-> "",
     startCharIndex |-> Undefined, endCharIndex |-> Undefined]

\* identifyChaptersWithLLM: raised without the credential, parsed.chapters
\* when the call and the parse succeed, createFallbackChapters(cleanText)
\* otherwise.  n is the number of chapters, wellFormed the shape the model
\* answered with.
IdentifyChaptersWithLLM(key, outcome, n, wellFormed) ==
    IF ~key THEN [raised |-> TRUE, chapters |-> <<>>]
    ELSE IF outcome \in {"ok", "too_long"}
    THEN [raised |-> FALSE, chapters |-> [k \in 1..n |-> IdentifiedChapter(wellFormed, FALSE)]]
    ELSE [raised |-> FALSE, chapters |-> [k \in 1..n |-> IdentifiedChapter(TRUE, TRUE)]]

ScoreValues == {0, 80, 100}
FuzzyValues == {0, 50}
ScoreRows == [1..Len(timestampedLines) -> ScoreValues]
FuzzyRows == [1..Len(timestampedLines) -> FuzzyValues]

\* Line 229: identifyChaptersWithLLM(cleanText).  The scores of the first
\* chapter's firstSentence against the anchors are fixed here.
IdentifyChapters ==
    /\ cPc = "identify"
    /\ \E outcome \in OracleOutcomes, n \in 0..(itemLimit - Len(timestampedLines)),
          wellFormed \in BOOLEAN :
         /\ outcome \notin {"ok", "too_long"} => wellFormed /\ (cleanLen = 0 => n = 0)
         /\ ~wellFormed => n > 0
         /\ LET identified == IdentifyChaptersWithLLM(apiKey, outcome, n, wellFormed)
            IN  IF identified.raised
                THEN /\ cPc' = "boundaries"
                     /\ UNCHANGED <<chapters, nextRow>>
                ELSE /\ chapters' = identified.chapters
                     /\ cPc' = "match"
                     /\ nextRow' \in (IF n > 0 /\ wellFormed THEN ScoreRows ELSE {<<>>})
         /\ TapeStep("identify", <<IdentifyChaptersWithLLM(apiKey, outcome, n, wellFormed),
                                   nextRow'>>)
    /\ cI' = 0
    /\ UNCHANGED <<plainLen, cleanLen, timestampedLines, allChunks, chunkCounter,
                   paragraphDocs, sentences>>
    /\ UNCHANGED <<apiKey, itemLimit, embedVars, uploadVars, searchVars, call>>

\* The loops of lines 511-517 and 583-594 of chapterSegmentation: the first
\* anchor whose score is above the threshold and above every earlier score;
\* 0 when there is none.
RECURSIVE BestLoop(_, _, _, _, _)
BestLoop(row, i, best, bestScore, threshold) ==
    IF i > Len(row) THEN best
    ELSE IF row[i] > bestScore /\ row[i] > threshold
         THEN BestLoop(row, i + 1, i, row[i], threshold)
         ELSE BestLoop(row, i + 1, best, bestScore, threshold)

\* Lines 534-536: timestampedLines.find(score > 0.7); 0 when there is none.
FindFirstAbove(row, threshold) ==
    LET hits == {i \in 1..Len(row) : row[i] > threshold}
    IN  IF hits = {} THEN 0 ELSE CHOOSE i \in hits : \A j \in hits : i <= j

\* The callback of chapters.map in matchChaptersToTimestamps for one chapter:
\* row holds calculateMatchScore(firstSentence, line.text) per anchor, fuzzy the
\* scores of findFuzzyMatch, long is firstSentence.length > 10, lit is
\* cleanText.indexOf(firstSentence), rowNext the scores of the next chapter's
\* firstSentence (<<>> for the last chapter).
MatchOneChapter(chapter, row, fuzzy, long, lit, rowNext) ==
    LET strict == BestLoop(row, 1, 0, 0, MatchThreshold)
        bestMatch == IF strict = 0 /\ long
                     THEN BestLoop(fuzzy, 1, 0, 0, FuzzyThreshold)
                     ELSE strict
        startCharIndex == IF lit # Undefined THEN lit
                          ELSE IF bestMatch # 0 THEN timestampedLines[bestMatch].charIndex
                          ELSE Undefined
        nextMatch == FindFirstAbove(rowNext, MatchThreshold)
    IN  [chapter EXCEPT
            !.startTimestamp = IF bestMatch # 0 THEN timestampedLines[bestMatch].timestamp
                               ELSE ZeroTs,
            !.endTimestamp = IF nextMatch # 0 THEN timestampedLines[nextMatch].timestamp
                             ELSE EndTs,
            !.startCharIndex = startCharIndex,
            !.endCharIndex = IF nextMatch # 0 THEN timestampedLines[nextMatch].charIndex
                             ELSE cleanLen]

\* The offsets cleanText.indexOf(firstSentence) can return, given the scores:
\* a score of 100 against an anchor means the anchor's text is the sentence,
\* which then occurs at the anchor's charIndex or before.
LiteralIndexes(chapter, row) ==
    {lit \in {Undefined} \cup {p \in CleanPosSet : p < cleanLen} :
        /\ chapter.literal => lit # Undefined
        /\ \A a \in 1..Len(row) :
              row[a] = 100 => lit # Undefined /\ lit <= timestampedLines[a].charIndex}

\* Line 232, one chapter of matchChaptersToTimestamps.
MatchChapter ==
    /\ cPc = "match"
    /\ cI < Len(chapters)
    /\ \A k \in 1..Len(chapters) : chapters[k].ok
    /\ \E fuzzy \in FuzzyRows, long \in BOOLEAN, lit \in LiteralIndexes(chapters[cI + 1], nextRow),
          rowNext \in (IF cI + 1 < Len(chapters) THEN ScoreRows ELSE {<<>>}) :
         /\ chapters' = [chapters EXCEPT ![cI + 1] =
                            MatchOneChapter(chapters[cI + 1], nextRow, fuzzy, long, lit, rowNext)]
         /\ nextRow' = rowNext
         /\ TapeStep("match", <<chapters'[cI + 1], rowNext>>)
    /\ cI' = cI + 1
    /\ UNCHANGED <<cPc, plainLen, cleanLen, timestampedLines, allChunks, chunkCounter,
                   paragraphDocs, sentences>>
    /\ UNCHANGED <<apiKey, itemLimit, embedVars, uploadVars, searchVars, call>>

\* Lines 232-234: matchChaptersToTimestamps returned.
MatchDone ==
    /\ cPc = "match"
    /\ cI = Len(chapters)
    /\ \A k \in 1..Len(chapters) : chapters[k].ok
    /\ cPc' = "topics"
    /\ cI' = 0
    /\ nextRow' = <<>>
    /\ UNCHANGED <<plainLen, cleanLen, timestampedLines, chapters, allChunks, chunkCounter,
                   paragraphDocs, sentences>>
    /\ UNCHANGED <<apiKey, itemLimit, embedVars, uploadVars, searchVars, replayVars, call>>

\* Lines 232 and 235-236: an entry without a string firstSentence makes
\* matchChaptersToTimestamps throw; the catch takes over.
MatchThrows ==
    /\ cPc = "match"
    /\ \E k \in 1..Len(chapters) : ~chapters[k].ok
    /\ cPc' = "boundaries"
    /\ chapters' = <<>>
    /\ nextRow' = <<>>
    /\ cI' = 0
    /\ UNCHANGED <<plainLen, cleanLen, timestampedLines, allChunks, chunkCounter,
                   paragraphDocs, sentences>>
    /\ UNCHANGED <<apiKey, itemLimit, embedVars, uploadVars, searchVars, replayVars, call>>

\* The boundary lists detectTopicBoundaries can return for a text of length
\* len: 0 first, then offsets below len, each more than 800 after the one
\* before (the smallest of its three distances).
RECURSIVE BoundaryTails(_, _)
BoundaryTails(last, len) ==
    {<<>>} \cup
    UNION { {<<p>> \o rest : rest \in BoundaryTails(p, len)} :
            p \in {q \in PosSet : q - last > MinBoundaryGap /\ q < len} }
BoundaryLists(len) == {<<0>> \o tail : tail \in BoundaryTails(0, len)}

\* topicBoundaries.slice(0, -1)
DropLast(s) == SubSeq(s, 1, Len(s) - 1)

\* Lines 239-247: the chapters built from the boundaries.
ChaptersFromBoundaries(topicBoundaries) ==
    LET starts == DropLast(topicBoundaries)
    IN  [i \in 1..Len(starts) |->
            [ok |-> TRUE, literal |-> FALSE,
             startTimestamp |-> ZeroTs, endTimestamp |-> ZeroTs,
             startCharIndex |-> starts[i],
             endCharIndex |-> IF topicBoundaries[i + 1] # 0 THEN topicBoundaries[i + 1]
                              ELSE plainLen]]

\* Lines 235-248: the catch block.
FallbackTopicDetection ==
    /\ cPc = "boundaries"
    /\ \E topicBoundaries \in BoundaryLists(plainLen) :
         /\ chapters' = ChaptersFromBoundaries(topicBoundaries)
         /\ TapeStep("boundaries", topicBoundaries)
    /\ cPc' = "topics"
    /\ cI' = 0
    /\ UNCHANGED <<plainLen, cleanLen, timestampedLines, nextRow, allChunks, chunkCounter,
                   paragraphDocs, sentences>>
    /\ UNCHANGED <<apiKey, itemLimit, embedVars, uploadVars, searchVars, call>>

\* ------------------------------------------------------------ topic chunks

\* x || fallback for a number x: 0 and undefined are falsy.
OrElse(x, fallback) == IF x = Undefined \/ x = 0 THEN fallback ELSE x

\* plainText.substring(a, b).length: both ends clamped to the text, swapped
\* when a > b.
SubstringLength(a, b, len) ==
    LET ca == Max(0, Min(a, len))
        cb == Max(0, Min(b, len))
    IN  IF ca <= cb THEN cb - ca ELSE ca - cb

\* chunkCounter after the callback of chapters.forEach ran for one chapter.
CounterAfterChapterAlways(counter, kept) == counter + 1
CounterAfterChapter(counter, kept) == IF kept THEN counter + 1 ELSE counter

\* Lines 251-279: the callback of chapters.forEach for one chapter.  The text
\* is taken to have no white space at its ends (trim removes nothing).
CreateTopicChunk ==
    /\ cPc = "topics"
    /\ cI < Len(chapters)
    /\ LET chapter == chapters[cI + 1]
           startChar == OrElse(chapter.startCharIndex, 0)
           endChar == OrElse(chapter.endCharIndex, plainLen)
           textLen == SubstringLength(startChar, endChar, plainLen)
           kept == textLen > MinTopicLength
       IN  /\ allChunks' =
                 IF kept
                 THEN Append(allChunks,
                        Chunk("topic", chunkCounter, TopicParentRef, startChar, endChar,
                              Undefined, textLen, chapter.startTimestamp, chapter.endTimestamp,
                              cI, "", ""))
                 ELSE allChunks
           /\ chunkCounter' = CounterAfterChapter(chunkCounter, kept)
    /\ cI' = cI + 1
    /\ UNCHANGED <<cPc, plainLen, cleanLen, timestampedLines, chapters, nextRow,
                   paragraphDocs, sentences>>
    /\ UNCHANGED <<apiKey, itemLimit, embedVars, uploadVars, searchVars, replayVars, call>>

\* -------------------------------------------------------- paragraph chunks

\* Lines 282-302: mapCharIndexToTimestamp, the loop over the anchors.
RECURSIVE MapLoop(_, _, _, _)
MapLoop(charIdx, i, startTs, endTs) ==
    IF i > Len(timestampedLines) THEN [start |-> startTs, end |-> endTs]
    ELSE IF timestampedLines[i].charIndex <= charIdx
         THEN MapLoop(charIdx, i + 1, timestampedLines[i].timestamp,
                      IF i + 1 <= Len(timestampedLines)
                      THEN timestampedLines[i + 1].timestamp ELSE EndTs)
         ELSE [start |-> startTs, end |-> endTs]

MapCharIndexToTimestampZeroEnd(charIdx) ==
    IF Len(timestampedLines) = 0 THEN [start |-> ZeroTs, end |-> ZeroTs]
    ELSE MapLoop(charIdx, 1, ZeroTs, ZeroTs)
MapCharIndexToTimestamp(charIdx) ==
    IF Len(timestampedLines) = 0 THEN [start |-> ZeroTs, end |-> ZeroTs]
    ELSE MapLoop(charIdx, 1, ZeroTs, EndTs)

\* The documents RecursiveCharacterTextSplitter(1000, 200) can return for
\* the part of the text from offset s on: each at most chunkSize long and
\* holding the whole rest of the text when that fits, the next one starting
\* where the last ended or at most chunkOverlap before.
RECURSIVE DocsFrom(_, _)
DocsFrom(s, len) ==
    IF len - s <= ChunkSize
    THEN {<<[start |-> s, length |-> len - s]>>}
    ELSE UNION {
           {<<[start |-> s, length |-> e - s]>> \o rest :
                rest \in UNION {DocsFrom(s2, len) :
                                  s2 \in {p \in PosSet : p > s /\ p <= e /\ e - p <= ChunkOverlap}}} :
           e \in {p \in PosSet : p > s /\ p < len /\ p - s <= ChunkSize} }

DocLists(len) == IF len = 0 THEN {<<>>} ELSE DocsFrom(0, len)

\* Lines 306-313: paragraphSplitter.createDocuments([plainText]).
SplitParagraphs ==
    /\ cPc = "topics"
    /\ cI = Len(chapters)
    /\ paragraphDocs' \in DocLists(plainLen)
    /\ TapeStep("paragraphs", paragraphDocs')
    /\ cPc' = "paragraphs"
    /\ cI' = 0
    /\ UNCHANGED <<plainLen, cleanLen, timestampedLines, chapters, nextRow,
                   allChunks, chunkCounter, sentences>>
    /\ UNCHANGED <<apiKey, itemLimit, embedVars, uploadVars, searchVars, call>>

\* allChunks.filter(c => c.chunk_level === level)
ChunksOfLevel(level) == SelectSeq(allChunks, LAMBDA c : c.chunk_level = level)

\* Array.prototype.find: the first of the positions whose element passes the
\* test (hits), 0 if there is none.
FindFirst(hits) ==
    IF hits = {} THEN 0
    ELSE CHOOSE i \in hits : \A j \in hits : i <= j

\* Lines 318-322: the test a topic passes to be the parent of a paragraph.
TopicContainsInclusive(topic, paragraphStart, paragraphLength) ==
    /\ paragraphStart >= OrElse(topic.segment_start, 0)
    /\ paragraphStart <= OrElse(topic.segment_end, plainLen)
TopicContains(topic, paragraphStart, paragraphLength) ==
    /\ paragraphStart >= OrElse(topic.segment_start, 0)
    /\ paragraphStart < OrElse(topic.segment_end, plainLen)

\* parent?.chunk_index || undefined, parent being s[found] or undefined
ParentRef(s, found) ==
    IF found = 0 THEN Undefined ELSE OrElse(s[found].chunk_index, Undefined)

\* Lines 315-342: the callback of paragraphDocs.forEach for one document.
\* Every document's text occurs once in the transcript, so
\* plainText.indexOf(doc.pageContent) is the offset it was cut at.
CreateParagraphChunk ==
    /\ cPc = "paragraphs"
    /\ cI < Len(paragraphDocs)
    /\ LET doc == paragraphDocs[cI + 1]
           paragraphStart == doc.start
           topics == ChunksOfLevel("topic")
           parentTopic == FindFirst({k \in DOMAIN topics :
                              TopicContains(topics[k], paragraphStart, doc.length)})
           ts == MapCharIndexToTimestamp(paragraphStart)
       IN  allChunks' = Append(allChunks,
                Chunk("paragraph", chunkCounter, ParentRef(topics, parentTopic),
                      Undefined, Undefined,
                      paragraphStart, doc.length, ts.start, ts.end, cI, "", ""))
    /\ chunkCounter' = chunkCounter + 1
    /\ cI' = cI + 1
    /\ UNCHANGED <<cPc, plainLen, cleanLen, timestampedLines, chapters, nextRow,
                   paragraphDocs, sentences>>
    /\ UNCHANGED <<apiKey, itemLimit, embedVars, uploadVars, searchVars, replayVars, call>>

\* --------------------------------------------------------- sentence chunks

\* Lengths of sentence candidates: all pass the filter of line 349 (above 20,
\* below 500), the first does not pass the one of line 352 (above 30).
SentenceLengths == {25, 40}

\* A sentence candidate: start is plainText.indexOf(sentence), its first
\* occurrence; inParas the paragraph documents whose text includes it.  A
\* document that spans the first occurrence includes the sentence; a document
\* that includes it holds an occurrence, which ends at or after the first one.
SentenceCandidates ==
    {[start |-> s, length |-> l, inParas |-> ps] :
        s \in PosSet, l \in SentenceLengths, ps \in SUBSET (1..Len(paragraphDocs))} 

ValidSentence(c) ==
    /\ c.start + c.length <= plainLen
    /\ \A j \in 1..Len(paragraphDocs) :
          LET doc == paragraphDocs[j]
          IN  /\ (doc.start <= c.start /\ c.start + c.length <= doc.start + doc.length)
                    => j \in c.inParas
              /\ j \in c.inParas => c.start + c.length <= doc.start + doc.length

\* The candidate lists of at most n sentences, first occurrences in text order.
RECURSIVE SentenceLists(_, _)
SentenceLists(from, n) ==
    {<<>>} \cup
    (IF n <= 0 THEN {}
     ELSE UNION { {<<c>> \o rest : rest \in SentenceLists(c.start, n - 1)} :
                  c \in {x \in SentenceCandidates : ValidSentence(x) /\ x.start >= from} })

\* Lines 346-349: split, trim and filter.
SplitSentences ==
    /\ cPc = "paragraphs"
    /\ cI = Len(paragraphDocs)
    /\ sentences' \in SentenceLists(0, itemLimit - Len(timestampedLines) - Len(chapters))
    /\ TapeStep("sentences", sentences')
    /\ cPc' = "sentences"
    /\ cI' = 0
    /\ UNCHANGED <<plainLen, cleanLen, timestampedLines, chapters, nextRow,
                   allChunks, chunkCounter, paragraphDocs>>
    /\ UNCHANGED <<apiKey, itemLimit, embedVars, uploadVars, searchVars, call>>

\* Lines 355-358: chunk.chunk_level === 'paragraph' &&
\* chunk.text_content.includes(sentence)
ParagraphIncludes(chunk, sentence) ==
    /\ chunk.chunk_level = "paragraph"
    /\ (chunk.source_index + 1) \in sentence.inParas

\* Lines 351-379: the callback of sentences.forEach for one sentence.
CreateSentenceChunk ==
    /\ cPc = "sentences"
    /\ cI < Len(sentences)
    /\ LET sentence == sentences[cI + 1]
           sentenceStart == sentence.start
           parentParagraph == FindFirst({k \in DOMAIN allChunks :
                                  ParagraphIncludes(allChunks[k], sentence)})
           tsSentence == MapCharIndexToTimestamp(sentenceStart)
       IN  IF sentence.length > MinSentenceLength
           THEN /\ allChunks' = Append(allChunks,
                       Chunk("sentence", chunkCounter, ParentRef(allChunks, parentParagraph),
                             Undefined, Undefined, sentenceStart, sentence.length + 1,
                             tsSentence.start, tsSentence.end, cI, "", ""))
                /\ chunkCounter' = chunkCounter + 1
           ELSE UNCHANGED <<allChunks, chunkCounter>>
    /\ cI' = cI + 1
    /\ UNCHANGED <<cPc, plainLen, cleanLen, timestampedLines, chapters, nextRow,
                   paragraphDocs, sentences>>
    /\ UNCHANGED <<apiKey, itemLimit, embedVars, uploadVars, searchVars, replayVars, call>>

\* Line 388: return allChunks.
ReturnChunks ==
    /\ cPc = "sentences"
    /\ cI = Len(sentences)
    /\ cPc' = "returned"
    /\ UNCHANGED <<plainLen, cleanLen, timestampedLines, chapters, nextRow, cI,
                   allChunks, chunkCounter, paragraphDocs, sentences>>
    /\ UNCHANGED <<apiKey, itemLimit, embedVars, uploadVars, searchVars, replayVars, call>>

Next ==
    \/ CreateEpisodeChunk
    \/ ExtractTimestamps
    \/ IdentifyChapters
    \/ MatchChapter
    \/ MatchDone
    \/ MatchThrows
    \/ FallbackTopicDetection
    \/ CreateTopicChunk
    \/ SplitParagraphs
    \/ CreateParagraphChunk
    \/ SplitSentences
    \/ CreateSentenceChunk
    \/ ReturnChunks

Spec == Init /\ [][Next]_vars

\* =================================================================
\* POST (app/api/upload-transcript/route.ts), from line 36 on: the
\* file passed the checks of lines 12-25
\* =================================================================

\* null, as a parent id
Null == -2

\* The store (lib/db and the database behind it): the effect of a statement
\* that succeeded.  Rows inserted inside a transaction are pending until
\* COMMIT makes them durable or ROLLBACK discards them; a row inserted
\* outside a transaction is durable at once.
DbQuery(d, statement, row) ==
    CASE statement = "BEGIN" -> [d EXCEPT !.inTx = TRUE]
      [] statement = "COMMIT" ->
            [d EXCEPT !.rows = d.rows \o d.pending, !.pending = <<>>, !.inTx = FALSE]
      [] statement = "ROLLBACK" -> [d EXCEPT !.pending = <<>>, !.inTx = FALSE]
      [] statement = "INSERT" ->
            LET stored == [row EXCEPT !.id = d.nextId]
            IN  IF d.inTx
                THEN [d EXCEPT !.pending = Append(d.pending, stored), !.nextId = d.nextId + 1]
                ELSE [d EXCEPT !.rows = Append(d.rows, stored), !.nextId = d.nextId + 1]
      [] OTHER -> d

\* The store after a statement that failed: nothing changes, except that the
\* end of the session discards what is pending when ROLLBACK cannot be sent.
DbFailed(d, statement) ==
    IF statement = "ROLLBACK" THEN [d EXCEPT !.pending = <<>>, !.inTx = FALSE] ELSE d

\* Line 54: the statement that opens the try block.
FirstStatementNone == "SELECT 1"
FirstStatement == "BEGIN"

\* insertedChunks[key], undefined when the key is absent
Lookup(map, key) == IF key \in DOMAIN map THEN map[key] ELSE Undefined

\* insertedChunks[key] = value
Store(map, key, value) ==
    [k \in DOMAIN map \cup {key} |-> IF k = key THEN value ELSE map[k]]

\* Lines 65-68: the parent id written for a chunk.
ActualParentId(map, chunk) ==
    IF chunk.parent_chunk_id # Undefined
    THEN LET id == Lookup(map, chunk.parent_chunk_id)
         IN  IF id = Undefined \/ id = 0 THEN Null ELSE id
    ELSE Null

\* The row of lines 92-111, as far as the claims look at it.
RowOf(chunk, parentId) ==
    [id |-> Null, chunk_index |-> chunk.chunk_index, chunk_level |-> chunk.chunk_level,
     parent_chunk_id |-> parentId]

InitUpload ==
    /\ apiKey \in BOOLEAN
    /\ itemLimit = UploadItems
    /\ EmbedIdle
    /\ ChunkStart
    /\ uPc = "chunking"
    /\ uI = 0
    /\ insertedChunks = <<>>
    /\ db = EmptyDb
    /\ SearchIdle
    /\ ReplayOff
    /\ CallIdle

\* Lines 36 and 143-151: createMultiLevelChunks raised.
UploadChunkingRaised ==
    /\ uPc = "chunking"
    /\ cPc = "raised"
    /\ uPc' = "failed"
    /\ UNCHANGED <<uI, insertedChunks, db>>
    /\ UNCHANGED <<apiKey, itemLimit, embedVars, chunkVars, searchVars, replayVars, call>>

\* Lines 40-48: getEmbeddings(texts) returns one vector per chunk, or raises.
UploadGetEmbeddings(ok) ==
    /\ uPc = "chunking"
    /\ cPc = "returned"
    /\ uPc' = IF ok THEN "connect" ELSE "failed"
    /\ UNCHANGED <<uI, insertedChunks, db>>
    /\ UNCHANGED <<apiKey, itemLimit, embedVars, chunkVars, searchVars, replayVars, call>>

\* Line 50: connectDb().
UploadConnectDb(ok) ==
    /\ uPc = "connect"
    /\ uPc' = IF ok THEN "begin" ELSE "failed"
    /\ UNCHANGED <<uI, insertedChunks, db>>
    /\ UNCHANGED <<apiKey, itemLimit, embedVars, chunkVars, searchVars, replayVars, call>>

\* Lines 53-57: client.query('BEGIN').
UploadBegin(ok) ==
    /\ uPc = "begin"
    /\ IF ok
       THEN /\ db' = DbQuery(db, FirstStatement, <<>>)
            /\ uPc' = "insert"
       ELSE /\ db' = DbFailed(db, FirstStatement)
            /\ uPc' = "catch"
    /\ uI' = 0
    /\ insertedChunks' = <<>>
    /\ UNCHANGED <<apiKey, itemLimit, embedVars, chunkVars, searchVars, replayVars, call>>

\* Lines 59-116: one turn of the insert loop.
UploadInsert(ok) ==
    /\ uPc = "insert"
    /\ uI < Len(allChunks)
    /\ LET chunk == allChunks[uI + 1]
           actualParentId == ActualParentId(insertedChunks, chunk)
       IN  IF ok
           THEN /\ db' = DbQuery(db, "INSERT", RowOf(chunk, actualParentId))
                /\ insertedChunks' = Store(insertedChunks, chunk.chunk_index, db.nextId)
                /\ uI' = uI + 1
                /\ UNCHANGED uPc
           ELSE /\ db' = DbFailed(db, "INSERT")
                /\ uPc' = "catch"
                /\ UNCHANGED <<uI, insertedChunks>>
    /\ UNCHANGED <<apiKey, itemLimit, embedVars, chunkVars, searchVars, replayVars, call>>

\* Lines 118-135: client.query('COMMIT') and the response.
UploadCommit(ok) ==
    /\ uPc = "insert"
    /\ uI = Len(allChunks)
    /\ IF ok
       THEN /\ db' = DbQuery(db, "COMMIT", <<>>)
            /\ uPc' = "done"
       ELSE /\ db' = DbFailed(db, "COMMIT")
            /\ uPc' = "catch"
    /\ UNCHANGED <<uI, insertedChunks>>
    /\ UNCHANGED <<apiKey, itemLimit, embedVars, chunkVars, searchVars, replayVars, call>>

\* Lines 137-151: client.query('ROLLBACK'), then the error response.
UploadCatch(ok) ==
    /\ uPc = "catch"
    /\ db' = IF ok THEN DbQuery(db, "ROLLBACK", <<>>) ELSE DbFailed(db, "ROLLBACK")
    /\ uPc' = "failed"
    /\ UNCHANGED <<uI, insertedChunks>>
    /\ UNCHANGED <<apiKey, itemLimit, embedVars, chunkVars, searchVars, replayVars, call>>

UploadStep ==
    \E ok \in BOOLEAN :
        \/ UploadGetEmbeddings(ok)
        \/ UploadConnectDb(ok)
        \/ UploadBegin(ok)
        \/ UploadInsert(ok)
        \/ UploadCommit(ok)
        \/ UploadCatch(ok)

NextUpload ==
    \/ Next
    \/ UploadChunkingRaised
    \/ UploadStep

SpecUpload == InitUpload /\ [][NextUpload]_vars

\* --------------------------------------------------------- claims C3, C4

\* The rows of the transcript in the store, durable or pending.
WrittenRows == db.rows \o db.pending

\* C3: the chunks are inserted in creation order, and the parent id written
\* for a chunk whose provisional parent_chunk_id is p is the id the store
\* returned for the chunk with chunk_index p, never null.
C3_ParentRewrittenToDurableId ==
    /\ \A k \in DOMAIN WrittenRows : WrittenRows[k].chunk_index = allChunks[k].chunk_index
    /\ \A k \in DOMAIN WrittenRows :
          allChunks[k].parent_chunk_id # Undefined =>
              /\ WrittenRows[k].parent_chunk_id # Null
              /\ \E j \in DOMAIN WrittenRows :
                    /\ WrittenRows[j].chunk_index = allChunks[k].parent_chunk_id
                    /\ WrittenRows[k].parent_chunk_id = WrittenRows[j].id

\* C4: once the request has finished, by its success response or by an error
\* response after a failure at any step, the store holds every chunk of the
\* transcript (exactly after the success response) or none of them, and
\* nothing is left pending.
C4_AllOrNothing ==
    uPc \in {"done", "failed"} =>
        /\ db.pending = <<>>
        /\ IF uPc = "done"
           THEN /\ Len(db.rows) = Len(allChunks)
                /\ \A k \in DOMAIN db.rows : db.rows[k].chunk_index = allChunks[k].chunk_index
           ELSE db.rows = <<>>

\* A request that failed after at least two inserts had succeeded.
C4_Witness ==
    /\ uPc = "failed"
    /\ db.nextId >= FirstId + 2
    /\ db.rows = <<>>

\* ------------------------------------------------- claims C1, C2, C5, C6, C7, C10

\* Following parent_chunk_id, read as a chunk_index, from chunk i reaches an
\* episode chunk within fuel steps.
RECURSIVE ChainReachesEpisode(_, _)
ChainReachesEpisode(i, fuel) ==
    LET c == allChunks[i]
    IN  IF c.chunk_level = "episode" THEN TRUE
        ELSE IF fuel = 0 \/ c.parent_chunk_id = Undefined THEN FALSE
        ELSE \E j \in DOMAIN allChunks :
                /\ allChunks[j].chunk_index = c.parent_chunk_id
                /\ ChainReachesEpisode(j, fuel - 1)

\* The chunks whose chunk_index is p.
ChunksWithIndex(p) == {i \in DOMAIN allChunks : allChunks[i].chunk_index = p}

\* C1: the list createMultiLevelChunks returns holds exactly one episode chunk,
\* and from every other chunk the chain of parent_chunk_id, read as
\* chunk_index, reaches that episode chunk.
C1_ParentChainReachesEpisode ==
    cPc = "returned" =>
        /\ Cardinality({i \in DOMAIN allChunks : allChunks[i].chunk_level = "episode"}) = 1
        /\ \A i \in DOMAIN allChunks : ChainReachesEpisode(i, Len(allChunks))

\* C2: every topic chunk's parent_chunk_id is the chunk_index of the episode
\* chunk of the same transcript, and the episode chunk has no parent.
C2_TopicParentIsEpisode ==
    \A i \in DOMAIN allChunks :
        /\ allChunks[i].chunk_level = "episode" => allChunks[i].parent_chunk_id = Undefined
        /\ allChunks[i].chunk_level = "topic" =>
              \E j \in ChunksWithIndex(allChunks[i].parent_chunk_id) :
                  allChunks[j].chunk_level = "episode"

\* Chapter detection succeeded: the titling step answered with its own
\* chapters and matchChaptersToTimestamps returned them.
ChapterDetectionSucceeded ==
    /\ cPc = "returned"
    /\ Len(chapters) > 0
    /\ \A k \in DOMAIN chapters :
          ~chapters[k].literal /\ chapters[k].endTimestamp # ZeroTs

\* C5: when chapter detection succeeds, the ranges [segment_start,
\* segment_end) of the topic chunks are pairwise disjoint and together cover
\* every offset of the transcript.
C5_TopicRangesPartitionTranscript ==
    ChapterDetectionSucceeded =>
        LET topics == ChunksOfLevel("topic")
        IN  /\ \A i, j \in DOMAIN topics :
                  i # j => \/ topics[i].segment_end <= topics[j].segment_start
                           \/ topics[j].segment_end <= topics[i].segment_start
            /\ \A p \in 0..(plainLen - 1) :
                  \E i \in DOMAIN topics :
                      topics[i].segment_start <= p /\ p < topics[i].segment_end

\* The chunk a child's parent_chunk_id resolves to: the chunk of the given
\* level with that chunk_index (0 when there is none).
ResolvedParent(child, level) ==
    LET hits == {j \in ChunksWithIndex(child.parent_chunk_id) :
                    allChunks[j].chunk_level = level}
    IN  IF child.parent_chunk_id = Undefined \/ hits = {} THEN 0
        ELSE CHOOSE j \in hits : TRUE

C7_OracleFailureNeverRaises ==
    cPc # "raised"

\* C10: the chunk_index values are 0, 1, 2, ... in creation order, without
\* gaps or repetitions, also when chapters are dropped for being too short.
C10_ChunkIndexIsPosition ==
    /\ \A i \in DOMAIN allChunks : allChunks[i].chunk_index = i - 1
    /\ Len(allChunks) > 0 => allChunks[1].chunk_level = "episode"
    /\ chunkCounter = Len(allChunks)

\* A returned tree for which a chapter was dropped, with a topic, a paragraph
\* and a sentence chunk created after it.
C10_Witness ==
    /\ cPc = "returned"
    /\ \E k \in DOMAIN chapters :
          /\ \A i \in DOMAIN allChunks :
                allChunks[i].chunk_level = "topic" => allChunks[i].source_index # k - 1
          /\ \E i \in DOMAIN allChunks :
                allChunks[i].chunk_level = "topic" /\ allChunks[i].source_index > k - 1
    /\ \E i \in DOMAIN allChunks : allChunks[i].chunk_level = "paragraph"

\* ----------------------------------------------------------- claims C8, C9

\* C8: whenever getEmbeddings(texts) returns, the result holds exactly one
\* vector per input text, the k-th vector being the one computed from the k-th
\* text, whatever the number of texts (below, at and above the 96-item batch
\* size) and whatever bisection retries happened on the way.
C8_OneVectorPerTextInOrder ==
    ePc = "returned" =>
        /\ Len(eResult) = Len(texts)
        /\ \A k \in 1..Len(texts) : eResult[k] = EmbeddingOf(texts[k])

\* A return after the second batch (past the 96-item boundary) was bisected
\* down to single items.
C8_Witness ==
    /\ ePc = "returned"
    /\ Len(texts) > MAX_BATCH_SIZE + 1
    /\ Len(eLast.batch) = 1
    /\ Len(eResult) = Len(texts)

C17_OneSentinelRangeWithoutAnchors ==
    (cPc = "returned" /\ timestampedLines = <<>>) =>
        \A i, j \in DOMAIN allChunks :
            /\ allChunks[i].timestamp_start = allChunks[j].timestamp_start
            /\ allChunks[i].timestamp_end = allChunks[j].timestamp_end

\* matchChaptersToTimestamps has just returned the chapters.
MatchReturned ==
    /\ cPc = "topics"
    /\ cI = 0
    /\ \A k \in DOMAIN chapters : chapters[k].endTimestamp # ZeroTs

\* C19: the chapters matchChaptersToTimestamps returns are contiguous: the
\* end offset and end timestamp of each are the start offset and start
\* timestamp of the next, and the last one ends with the clean text.
C19_MatchedChaptersContiguous ==
    MatchReturned =>
        /\ \A k \in 1..(Len(chapters) - 1) :
              /\ chapters[k].endCharIndex = chapters[k + 1].startCharIndex
              /\ chapters[k].endTimestamp = chapters[k + 1].startTimestamp
        /\ Len(chapters) > 0 => chapters[Len(chapters)].endCharIndex = cleanLen

\* ------------------------------------------------------------- claim C20

\* getEmbeddings under the scheduler's guarantee that a pending await is
\* eventually resumed: every fetch settles, with whatever outcome.
SpecEmbedFair == SpecEmbed /\ WF_vars(NextEmbed)

\* The number of service calls a full bisection of the pending batches can
\* still make: a batch of m items is the root of a call tree of at most
\* 2m - 1 calls.
RECURSIVE CallsLeft(_)
CallsLeft(stack) ==
    IF stack = <<>> THEN 0
    ELSE (2 * Len(Head(stack)) - 1) + CallsLeft(Tail(stack))

\* The call just made answered with a retry on two halves.
Retried == Len(eStack') = Len(eStack) + 1

\* C20: embedBatch terminates for every batch of n >= 1 items whatever subset
\* of service calls fails.  The batch handed to embedBatch starts with a
\* budget of 2n - 1 calls; every service call either raises or lowers the
\* budget left by at least one, and a retry is on two non-empty halves, each
\* strictly smaller than the batch that failed; and embedBatch always ends,
\* by returning or by raising.
C20_EmbedBatchTerminatesWithin2nMinus1 ==
    /\ [][EmbedNextBatch =>
             CallsLeft(eStack') = 2 * Len(eStack'[1]) - 1 /\ Len(eStack'[1]) >= 1]_vars
    /\ [][EmbedCall =>
             /\ ePc' = "raised" \/ CallsLeft(eStack') <= CallsLeft(eStack) - 1
             /\ CallsLeft(eStack') >= 0
             /\ Retried =>
                   /\ eStack'[1] # <<>> /\ Len(eStack'[1]) < Len(eStack[1])
                   /\ eStack'[2] # <<>> /\ Len(eStack'[2]) < Len(eStack[1])
                   /\ eStack'[1] \o eStack'[2] = eStack[1]]_vars
    /\ [](ePc = "call" => <>(ePc \in {"loop", "raised"}))

\* A batch of several items came back after being bisected down to single
\* items.
C20_Witness ==
    /\ ePc = "returned"
    /\ Len(texts) > 2
    /\ Len(eLast.batch) = 1
    /\ Len(eResult) = Len(texts)

\* =================================================================
\* Pure functions, called once on an argument drawn from a finite set
\* =================================================================

\* The state before fn is called on one of Args; nothing else is running.
CallInit(fn, Args) ==
    /\ apiKey = TRUE
    /\ itemLimit = MaxItems
    /\ EmbedIdle
    /\ ChunkIdle
    /\ UploadIdle
    /\ SearchIdle
    /\ ReplayOff
    /\ call \in {[fn |-> fn, args |-> a, returned |-> FALSE, value |-> <<>>] : a \in Args}

\* fn returns v.
CallReturn(fn, v) ==
    /\ call.fn = fn
    /\ ~call.returned
    /\ call' = [call EXCEPT !.returned = TRUE, !.value = v]
    /\ UNCHANGED <<apiKey, itemLimit, embedVars, chunkVars, uploadVars, searchVars, replayVars>>

\* ------------------------------------------------------- JS string helpers
\* A string is the sequence of its characters.

\* The first position at or after from where sep occurs in s, 0 if none.
RECURSIVE IndexOfFrom(_, _, _)
IndexOfFrom(s, sep, from) ==
    IF from + Len(sep) - 1 > Len(s) THEN 0
    ELSE IF SubSeq(s, from, from + Len(sep) - 1) = sep THEN from
    ELSE IndexOfFrom(s, sep, from + 1)

\* s.split(sep): the pieces of s between the occurrences of sep.
RECURSIVE Split(_, _)
Split(s, sep) ==
    LET at == IndexOfFrom(s, sep, 1)
    IN  IF at = 0 THEN <<s>>
        ELSE <<SubSeq(s, 1, at - 1)>> \o Split(SubSeq(s, at + Len(sep), Len(s)), sep)

\* s.trim()
RECURSIVE Trim(_)
Trim(s) ==
    IF s = <<>> THEN s
    ELSE IF Head(s) = " " THEN Trim(Tail(s))
    ELSE IF s[Len(s)] = " " THEN Trim(SubSeq(s, 1, Len(s) - 1))
    ELSE s

\* s.padStart(n, c)
PadStartNever(s, n, c) == s
PadStart(s, n, c) == [k \in 1..Max(n - Len(s), 0) |-> c] \o s

\* =================================================================
\* normalizeTimestamp (lib/chapterSegmentation.ts)
\* =================================================================

\* timestamp.replace(/[\[\]()]/g, '')
StripBrackets(timestamp) ==
    SelectSeq(timestamp, LAMBDA c : c \notin {"[", "]", "(", ")"})

normalizeTimestamp(timestamp) ==
    LET cleanTimestamp == Trim(Split(StripBrackets(timestamp), <<"-", "-", ">">>)[1])
        timeOnly == Split(cleanTimestamp, <<",">>)[1]
        parts == Split(timeOnly, <<":">>)
    IN  IF Len(parts) = 3
        THEN PadStart(parts[1], 2, "0") \o <<":">> \o PadStart(parts[2], 2, "0")
                 \o <<":">> \o PadStart(parts[3], 2, "0")
        ELSE timeOnly

\* The timestamps the function is called on: three components of one or two
\* digits, bare, bracketed or parenthesised, with or without milliseconds and
\* a range end.
Hours == {<<"1">>, <<"0", "0">>, <<"1", "2">>}
Minutes == {<<"2">>, <<"0", "5">>, <<"5", "9">>}
Seconds == {<<"3">>, <<"1", "0">>}
Millis == {<<>>, <<",", "5", "0", "0">>}
RangeEnds == {<<>>,
              <<" ", "-", "-", ">", " ", "0", "0", ":", "0", "6", ":", "0", "0", ",", "7", "0", "0">>,
              <<"-", "-", ">", "4", ":", "5", ":", "6">>}
Wrappings == {<<"", "">>, <<"[", "]">>, <<"(", ")">>}

\* The text of a timestamp with the given parts.
TimestampText(t) ==
    LET open == IF t.wrap[1] = "" THEN <<>> ELSE <<t.wrap[1]>>
        close == IF t.wrap[2] = "" THEN <<>> ELSE <<t.wrap[2]>>
    IN  open \o t.h \o <<":">> \o t.m \o <<":">> \o t.s \o t.ms \o t.range \o close

TimestampInputs ==
    [wrap : Wrappings, h : Hours, m : Minutes, s : Seconds, ms : Millis, range : RangeEnds]

InitNormalize == CallInit("normalizeTimestamp", TimestampInputs)

NormalizeCall ==
    CallReturn("normalizeTimestamp", normalizeTimestamp(TimestampText(call.args)))

SpecNormalize == InitNormalize /\ [][NormalizeCall]_vars

\* ------------------------------------------------------------- claim C16

\* A component written with two digits.
TwoDigits(p) == IF Len(p) = 1 THEN <<"0">> \o p ELSE p

\* C16: timestamp normalization zero-pads each of the three components to two
\* digits and strips brackets, parentheses, milliseconds and a range end:
\* 1:2:3 gives 01:02:03 and [00:05:10] gives 00:05:10.
C16_NormalizedIsPaddedHMS ==
    /\ (call.fn = "normalizeTimestamp" /\ call.returned) =>
           call.value = TwoDigits(call.args.h) \o <<":">> \o TwoDigits(call.args.m)
                            \o <<":">> \o TwoDigits(call.args.s)
    /\ normalizeTimestamp(<<"1", ":", "2", ":", "3">>)
           = <<"0", "1", ":", "0", "2", ":", "0", "3">>
    /\ normalizeTimestamp(<<"[", "0", "0", ":", "0", "5", ":", "1", "0", "]">>)
           = <<"0", "0", ":", "0", "5", ":", "1", "0">>

\* A bracketed timestamp with one-digit components, milliseconds and a range
\* end has been normalized.
C16_Witness ==
    /\ call.fn = "normalizeTimestamp"
    /\ call.returned
    /\ call.args.wrap = <<"[", "]">>
    /\ Len(call.args.h) = 1
    /\ call.args.ms # <<>>
    /\ call.args.range # <<>>
    /\ Len(call.value) = 8

\* =================================================================
\* smartSearch: classifyQuery, calculateLevelWeight, assembleContext
\* =================================================================

UpperCaseLetters == <<"A", "B", "C", "D", "E", "F", "G", "H", "I", "J", "K", "L", "M", "N", "O", "P", "Q", "R", "S", "T", "U", "V", "W", "X", "Y", "Z">>
LowerCaseLetters == <<"a", "b", "c", "d", "e", "f", "g", "h", "i", "j", "k", "l", "m", "n", "o", "p", "q", "r", "s", "t", "u", "v", "w", "x", "y", "z">>

\* query.toLowerCase()
ToLowerCase(s) ==
    [k \in 1..Len(s) |->
        IF \E n \in 1..26 : UpperCaseLetters[n] = s[k]
        THEN LowerCaseLetters[CHOOSE n \in 1..26 : UpperCaseLetters[n] = s[k]]
        ELSE s[k]]

\* s.includes(t)
Includes(s, t) == IndexOfFrom(s, t, 1) # 0

broadIndicators ==
    {<<"e", "p", "i", "s", "o", "d", "e", "s", " ", "a", "b", "o", "u", "t">>,
     <<"p", "o", "d", "c", "a", "s", "t", "s", " ", "a", "b", "o", "u", "t">>,
     <<"w", "h", "i", "c", "h", " ", "e", "p", "i", "s", "o", "d", "e">>,
     <<"f", "i", "n", "d", " ", "e", "p", "i", "s", "o", "d", "e", "s">>,
     <<"d", "i", "s", "c", "u", "s", "s", "e", "s">>,
     <<"t", "a", "l", "k", "s", " ", "a", "b", "o", "u", "t">>,
     <<"c", "o", "v", "e", "r", "s">>,
     <<"m", "e", "n", "t", "i", "o", "n", "s">>}

specificIndicators ==
    {<<"w", "h", "a", "t", " ", "d", "o", "e", "s">>,
     <<"h", "o", "w", " ", "d", "o", "e", "s">>,
     <<"e", "x", "p", "l", "a", "i", "n">>,
     <<"d", "e", "f", "i", "n", "i", "t", "i", "o", "n">>,
     <<"e", "x", "a", "m", "p", "l", "e">>,
     <<"q", "u", "o", "t", "e">>,
     <<"e", "x", "a", "c", "t">>,
     <<"p", "r", "e", "c", "i", "s", "e", "l", "y">>,
     <<"s", "p", "e", "c", "i", "f", "i", "c", "a", "l", "l", "y">>}

exploratoryIndicators ==
    {<<"t", "e", "l", "l", " ", "m", "e", " ", "a", "b", "o", "u", "t">>,
     <<"l", "e", "a", "r", "n", " ", "a", "b", "o", "u", "t">>,
     <<"u", "n", "d", "e", "r", "s", "t", "a", "n", "d">>,
     <<"o", "v", "e", "r", "v", "i", "e", "w">>}

\* indicators.some(indicator => lowerQuery.includes(indicator))
SomeIncluded(indicators, lowerQuery) ==
    \E indicator \in indicators : Includes(lowerQuery, indicator)

classifyQuerySpecificFirst(query) ==
    LET lowerQuery == ToLowerCase(query)
        isBroad == SomeIncluded(broadIndicators, lowerQuery)
        isSpecific == SomeIncluded(specificIndicators, lowerQuery)
        isExploratory == SomeIncluded(exploratoryIndicators, lowerQuery)
    IN  IF isSpecific THEN <<"paragraph", "sentence">>
        ELSE IF isBroad THEN <<"episode", "topic">>
        ELSE IF isExploratory THEN <<"episode", "topic", "paragraph">>
        ELSE <<"topic", "paragraph">>
classifyQuery(query) ==
    LET lowerQuery == ToLowerCase(query)
        isBroad == SomeIncluded(broadIndicators, lowerQuery)
        isSpecific == SomeIncluded(specificIndicators, lowerQuery)
        isExploratory == SomeIncluded(exploratoryIndicators, lowerQuery)
    IN  IF isBroad THEN <<"episode", "topic">>
        ELSE IF isSpecific THEN <<"paragraph", "sentence">>
        ELSE IF isExploratory THEN <<"episode", "topic", "paragraph">>
        ELSE <<"topic", "paragraph">>

\* The queries classifyQuery is called on: up to MaxFragments pieces of text
\* put end to end.  The pieces give queries with no phrase, with phrases of
\* one or several categories, in either case, and inside longer words.
MaxFragments == 3
QueryFragments ==
    {<<>>,
     <<"w", "h", "i", "c", "h", " ", "e", "p", "i", "s", "o", "d", "e">>,
     <<"s", " ", "d", "i", "s", "c", "u", "s", "s", " ", "A", "I", " ", "s", "a", "f", "e", "t", "y">>,
     <<"C", "o", "v", "e", "r", "s">>,
     <<"u", "n">>,
     <<"E", "X", "P", "L", "A", "I", "N">>,
     <<"W", "h", "a", "t", " ", "d", "o", "e", "s", " ">>,
     <<"l", "e", "a", "r", "n">>,
     <<" ", "a", "b", "o", "u", "t">>,
     <<"O", "v", "e", "r", "v", "i", "e", "w">>,
     <<"e", "p", "i", "s", "o", "d", "e", "s">>}

RECURSIVE Concat(_)
Concat(pieces) == IF pieces = <<>> THEN <<>> ELSE Head(pieces) \o Concat(Tail(pieces))

QueryInputs == {Concat(pieces) : pieces \in [1..MaxFragments -> QueryFragments]}

InitClassify == CallInit("classifyQuery", QueryInputs)

ClassifyCall == CallReturn("classifyQuery", classifyQuery(call.args))

SpecClassify == InitClassify /\ [][ClassifyCall]_vars

\* ------------------------------------------------------------- claim C11

\* The elements of an array.
Elements(s) == {s[k] : k \in DOMAIN s}

\* The query, compared without regard to case, contains one of the phrases.
ContainsAny(query, phrases) ==
    \E p \in phrases : \E k \in 1..Len(query) :
        /\ k + Len(p) - 1 <= Len(query)
        /\ \A j \in 1..Len(p) :
               \/ query[k + j - 1] = p[j]
               \/ \E n \in 1..26 : query[k + j - 1] = UpperCaseLetters[n] /\ p[j] = LowerCaseLetters[n]

Levels == <<"episode", "topic", "paragraph", "sentence">>

\* Weights and boosts are counted in tenths, their product in hundredths.
baseWeights == [episode |-> 8, topic |-> 10, paragraph |-> 10, sentence |-> 9]

\* preferredLevels.includes(level)
IsPreferred(level, preferred) == \E k \in DOMAIN preferred : preferred[k] = level

PreferenceBoostInverted(isPreferred) == IF isPreferred THEN 8 ELSE 12
PreferenceBoost(isPreferred) == IF isPreferred THEN 12 ELSE 8

calculateLevelWeight(level, preferred) ==
    baseWeights[level] * PreferenceBoost(IsPreferred(level, preferred))

\* Lines 54-56 of the search route: a similarity is counted in units of
\* 0.00001, so an adjusted score is counted in units of 0.0000001.
AdjustedScore(baseScore, level, preferred) ==
    baseScore * calculateLevelWeight(level, preferred)

\* The arrays of levels a caller can prefer: every selection of the four.
PreferredChoices ==
    {SelectSeq(Levels, LAMBDA l : l \in chosen) : chosen \in SUBSET {"episode", "topic", "paragraph", "sentence"}}

\* Raw similarities, in units of 0.00001.
RawSimilarities == {0, 25000, 32003, 40001, 50000, 100000}

WeightInputs ==
    [level : {"episode", "topic", "paragraph", "sentence"},
     preferred : PreferredChoices,
     baseScore : RawSimilarities]

InitWeight == CallInit("calculateLevelWeight", WeightInputs)

WeightCall ==
    CallReturn("calculateLevelWeight",
               <<calculateLevelWeight(call.args.level, call.args.preferred),
                 AdjustedScore(call.args.baseScore, call.args.level, call.args.preferred)>>)

SpecWeight == InitWeight /\ [][WeightCall]_vars

\* ------------------------------------------------------------- claim C12

\* The base weight of a level and the multiplier of a preference, in tenths.
BaseWeightOf(level) ==
    CASE level = "episode" -> 8
      [] level = "topic" -> 10
      [] level = "paragraph" -> 10
      [] level = "sentence" -> 9

MultiplierOf(level, preferred) ==
    IF level \in {preferred[k] : k \in DOMAIN preferred} THEN 12 ELSE 8

\* C12: for every level and preferred-level set, the adjusted score of a
\* candidate is raw similarity x base_weight(level) x (1.2 if the level is
\* preferred, else 0.8), with base weights episode 0.8, topic 1.0, paragraph
\* 1.0, sentence 0.9; so raw 0.5 on a sentence chunk gives 0.36 when only
\* paragraph is preferred and 0.54 when sentence is preferred.
C12_AdjustedScoreIsWeightedSimilarity ==
    /\ (call.fn = "calculateLevelWeight" /\ call.returned) =>
           call.value[2] = call.args.baseScore * BaseWeightOf(call.args.level)
                               * MultiplierOf(call.args.level, call.args.preferred)
    /\ AdjustedScore(50000, "sentence", <<"paragraph">>) = 3600000
    /\ AdjustedScore(50000, "sentence", <<"sentence">>) = 5400000

\* The score of a sentence with raw similarity 0.5 has been adjusted for a
\* caller that prefers paragraphs only.
C12_Witness ==
    /\ call.fn = "calculateLevelWeight"
    /\ call.returned
    /\ call.args.level = "sentence"
    /\ call.args.preferred = <<"paragraph">>
    /\ call.args.baseScore = 50000
    /\ call.value = <<72, 3600000>>

\* ------------------------------------------------------- assembleContext

\* if (result.parent_chunk_id): null, undefined and 0 are falsy.
Truthy(id) == id # Null /\ id # Undefined /\ id # 0

\* The first element of s, as an array of at most one element.
FirstOf(s) == IF s = <<>> THEN <<>> ELSE <<s[1]>>

IsChild(r, result) == r.parent_chunk_id = result.id

IsSiblingOrSelf(r, result) == r.parent_chunk_id = result.parent_chunk_id
IsSibling(r, result) == r.parent_chunk_id = result.parent_chunk_id /\ r.id # result.id

assembleContext(result, allResults) ==
    LET parent == IF Truthy(result.parent_chunk_id)
                  THEN FirstOf(SelectSeq(allResults, LAMBDA r : r.id = result.parent_chunk_id))
                  ELSE <<>>
        children == SelectSeq(allResults, LAMBDA r : IsChild(r, result))
        siblings == IF Truthy(result.parent_chunk_id)
                    THEN Slice(SelectSeq(allResults, LAMBDA r : IsSibling(r, result)), 0, 2)
                    ELSE <<>>
    IN  parent \o Slice(children, 0, 3) \o siblings

\* The candidates around a hit: a chunk (id 1, no parent), the hit's chunk
\* (id 2, child of 1), nS further children of 1 and nC children of 2.  Ids
\* are distinct and a parent has a smaller id than its children, as chunks
\* are stored.
Family(nS, nC) ==
    [k \in 1..(2 + nS + nC) |->
        [id |-> k,
         parent_chunk_id |-> IF k = 1 THEN Null ELSE IF k <= 2 + nS THEN 1 ELSE 2]]

Reverse(s) == [k \in 1..Len(s) |-> s[Len(s) + 1 - k]]

\* s without its element at position k (k = 0: s itself).
Without(s, k) == SelectSeq(s, LAMBDA r : k = 0 \/ r # s[k])

\* The hit is the chunk without parent, the chunk with parent and children,
\* or a chunk without children; the pool lists the family in either order,
\* whole or with one member missing.
ContextInputs ==
    UNION {UNION {{[result |-> Family(nS, nC)[h], allResults |-> pool] :
                      pool \in {Without(Family(nS, nC), k) : k \in 0..(2 + nS + nC)}
                                \cup {Reverse(Without(Family(nS, nC), k)) : k \in 0..(2 + nS + nC)}} :
                  h \in {1, 2, 2 + nS + nC}} :
           <<nS, nC>> \in (0..MaxSiblings) \X (0..MaxChildren)}

InitContext == CallInit("assembleContext", ContextInputs)

ContextCall ==
    CallReturn("assembleContext", assembleContext(call.args.result, call.args.allResults))

SpecContext == InitContext /\ [][ContextCall]_vars

\* ------------------------------------------------------------- claim C14

\* What an entry of the context is to the hit: 1 its parent, 2 a child,
\* 3 a sibling, 0 none of these.
RelationTo(hit, r) ==
    IF r.id = hit.parent_chunk_id THEN 1
    ELSE IF r.parent_chunk_id = hit.id THEN 2
    ELSE IF r.parent_chunk_id = hit.parent_chunk_id /\ r.id # hit.id THEN 3
    ELSE 0

CountOf(hit, context, relation) ==
    Cardinality({k \in DOMAIN context : RelationTo(hit, context[k]) = relation})

\* C14: for every hit and candidate pool, assembleContext returns, in this
\* order, at most one parent (the candidate whose id is the hit's
\* parent_chunk_id), at most 3 children (candidates whose parent_chunk_id is
\* the hit's id) and at most 2 siblings (candidates with the hit's
\* parent_chunk_id, never the hit itself); so a context has at most 6 entries
\* and never contains the hit.
C14_ContextIsParentChildrenSiblings ==
    (call.fn = "assembleContext" /\ call.returned) =>
        LET hit == call.args.result
            context == call.value
        IN  /\ \A k \in DOMAIN context :
                   /\ RelationTo(hit, context[k]) # 0
                   /\ \E j \in DOMAIN call.args.allResults : call.args.allResults[j] = context[k]
                   /\ context[k].id # hit.id
            /\ \A j, k \in DOMAIN context :
                   j < k => RelationTo(hit, context[j]) <= RelationTo(hit, context[k])
            /\ CountOf(hit, context, 1) <= 1
            /\ CountOf(hit, context, 2) <= 3
            /\ CountOf(hit, context, 3) <= 2
            /\ Len(context) <= 6

\* The context of a hit with a parent, four children and three siblings among
\* the candidates: six entries.
C14_Witness ==
    /\ call.fn = "assembleContext"
    /\ call.returned
    /\ call.args.result.id = 2
    /\ Cardinality({k \in DOMAIN call.args.allResults : call.args.allResults[k].parent_chunk_id = 2}) = 4
    /\ Cardinality({k \in DOMAIN call.args.allResults : call.args.allResults[k].parent_chunk_id = 1}) = 4
    /\ Len(call.value) = 6

\* =================================================================
\* POST /api/search-transcripts (app/api/search-transcripts/route.ts)
\* =================================================================

\* Defaults of the request body (line 8); a similarity is counted in units of
\* 0.00001.
DefaultMaxResults == 10
DefaultMinSimilarity == 25000

\* Largest maxResults a request asks for.
MaxResults == 3

\* The bijections of 1..n.
Bijections(n) == {f \in [1..n -> 1..n] : \A i, j \in 1..n : f[i] = f[j] => i = j}

\* The stored chunks of a transcript, in creation order (SERIAL id): an episode
\* chunk, a topic chunk and n paragraph chunks under the topic.  An embedding
\* is identified by its cosine similarity to the embedding of the query at
\* hand; the paragraphs take n distinct similarities, in the order rank.
SearchStore(episodeNear, topicNear, n, rank) ==
    [k \in 1..(2 + n) |->
        IF k = 1 THEN [id |-> 1, chunk_level |-> "episode", parent_chunk_id |-> Null,
                       embedding |-> [near |-> episodeNear]]
        ELSE IF k = 2 THEN [id |-> 2, chunk_level |-> "topic", parent_chunk_id |-> Null,
                            embedding |-> [near |-> topicNear]]
        ELSE [id |-> k, chunk_level |-> "paragraph", parent_chunk_id |-> 2,
              embedding |-> [near |-> 30000 + 1000 * rank[k - 2]]]]

SearchStores ==
    UNION {{SearchStore(e, t, n, rank) : rank \in Bijections(n)} :
           <<e, t, n>> \in {DefaultMinSimilarity, 40001} \X {32003, 45000} \X (0..MaxChildren)}

\* The request bodies: a blank query, or a query with or without levels and
\* maxResults.
SearchQueries == {<<"w", "h", "i", "c", "h", " ", "e", "p", "i", "s", "o", "d", "e">>, <<"x">>, <<"E", "x", "p", "l", "a", "i", "n">>}
BlankQuery == <<" ", " ">>
SearchRequests ==
    {[query |-> BlankQuery, levels |-> <<>>, hasLevels |-> FALSE, maxResults |-> DefaultMaxResults]}
    \cup [query : SearchQueries,
          levels : {<<>>},
          hasLevels : {FALSE},
          maxResults : (1..MaxResults) \cup {DefaultMaxResults}]
    \cup [query : {<<"x">>},
          levels : {Levels},
          hasLevels : {TRUE},
          maxResults : 1..MaxResults]

InitSearch ==
    /\ apiKey \in BOOLEAN
    /\ itemLimit = MaxItems
    /\ EmbedIdle
    /\ ChunkIdle
    /\ uPc = "idle"
    /\ uI = 0
    /\ insertedChunks = <<>>
    /\ \E rows \in SearchStores : db = [EmptyDb EXCEPT !.rows = rows, !.nextId = Len(rows) + 1]
    /\ sPc = "start"
    /\ sRequest \in SearchRequests
    /\ preferredLevels = <<>>
    /\ searchRows = <<>>
    /\ sResponse = NoResponse
    /\ ReplayOff
    /\ CallIdle

\* Lines 8-16: the body is read, a missing or blank query is refused, the
\* levels are taken from the body or from classifyQuery.
SearchParse ==
    /\ sPc = "start"
    /\ IF Trim(sRequest.query) = <<>>
       THEN /\ sResponse' = [status |-> 400, results |-> <<>>]
            /\ sPc' = "done"
            /\ UNCHANGED preferredLevels
       ELSE /\ preferredLevels' = IF sRequest.hasLevels THEN sRequest.levels
                                  ELSE classifyQuery(Trim(sRequest.query))
            /\ sPc' = "embed"
            /\ UNCHANGED sResponse
    /\ UNCHANGED <<sRequest, searchRows>>
    /\ UNCHANGED <<apiKey, itemLimit, embedVars, chunkVars, uploadVars, replayVars, call>>

\* Lines 126-135: an error raised inside the try block is answered with 500.
SearchFailed ==
    /\ sResponse' = [status |-> 500, results |-> <<>>]
    /\ sPc' = "done"

\* Lines 19-21: the query is embedded; getEmbeddings raises without a key or
\* when the service fails.
SearchEmbed(ok) ==
    /\ sPc = "embed"
    /\ IF ok /\ apiKey THEN sPc' = "connect" /\ UNCHANGED sResponse ELSE SearchFailed
    /\ UNCHANGED <<sRequest, preferredLevels, searchRows>>
    /\ UNCHANGED <<apiKey, itemLimit, embedVars, chunkVars, uploadVars, replayVars, call>>

\* Line 23.
SearchConnectDb(ok) ==
    /\ sPc = "connect"
    /\ IF ok THEN sPc' = "select" /\ UNCHANGED sResponse ELSE SearchFailed
    /\ UNCHANGED <<sRequest, preferredLevels, searchRows>>
    /\ UNCHANGED <<apiKey, itemLimit, embedVars, chunkVars, uploadVars, replayVars, call>>

\* 1 - (embedding <=> $1::vector)
SimilarityOf(row) == row.embedding.near

\* s, sorted by decreasing similarity, with x put behind the elements that
\* are at least as similar.
RECURSIVE InsertBySimilarity(_, _)
InsertBySimilarity(s, x) ==
    IF s = <<>> THEN <<x>>
    ELSE IF x.similarity > Head(s).similarity THEN <<x>> \o s
    ELSE <<Head(s)>> \o InsertBySimilarity(Tail(s), x)

\* s.sort((a, b) => b.similarity - a.similarity): by decreasing similarity,
\* equally similar elements keeping their order (the sort is stable).
RECURSIVE SortBySimilarity(_)
SortBySimilarity(s) ==
    IF s = <<>> THEN <<>>
    ELSE InsertBySimilarity(SortBySimilarity(SubSeq(s, 1, Len(s) - 1)), s[Len(s)])

\* chunk_level = ANY($3)
AnyLevel(level, levels) == TRUE
AnyOf(level, levels) == \E k \in DOMAIN levels : levels[k] = level

\* Lines 26-50: the SELECT.  The rows with an embedding, a similarity above
\* the threshold and a level among levels, by decreasing similarity (no two
\* stored rows are equally near the query), cut at limit.
Select(rows, minSimilarity, levels, limit) ==
    LET matching == SelectSeq(rows, LAMBDA r : /\ SimilarityOf(r) > minSimilarity
                                               /\ AnyOf(r.chunk_level, levels))
        found == [k \in DOMAIN matching |->
                     [id |-> matching[k].id,
                      chunk_level |-> matching[k].chunk_level,
                      parent_chunk_id |-> matching[k].parent_chunk_id,
                      similarity |-> SimilarityOf(matching[k])]]
    IN  Slice(SortBySimilarity(found), 0, limit)

\* parseFloat(adjustedScore.toFixed(4)): an adjusted score, in units of
\* 0.0000001, rounded to units of 0.0001.
ToFixed4(adjustedScore) == (adjustedScore + 500) \div 1000

\* Lines 53-75: a row with its similarity replaced by the rounded adjusted
\* score.
Reweighted(row, preferred) ==
    [row EXCEPT !.similarity = ToFixed4(AdjustedScore(row.similarity, row.chunk_level, preferred))]

\* Lines 53-81: results after the map, the sort and the slice.
Ranked(rows, preferred, maxResults) ==
    Slice(SortBySimilarity([k \in DOMAIN rows |-> Reweighted(rows[k], preferred)]),
          0, maxResults)

\* Lines 84-105: every result with its context, taken from the rows as the
\* SELECT returned them.
WithContext(results, allResults) ==
    [k \in DOMAIN results |->
        [id |-> results[k].id,
         chunk_level |-> results[k].chunk_level,
         parent_chunk_id |-> results[k].parent_chunk_id,
         similarity |-> results[k].similarity,
         context |-> assembleContext(results[k], allResults)]]

\* Lines 26-124: the SELECT is answered and the response is built, or the
\* SELECT fails.
SearchSelect(ok) ==
    /\ sPc = "select"
    /\ IF ok
       THEN LET rows == Select(db.rows, DefaultMinSimilarity, preferredLevels,
                               sRequest.maxResults * 2)
            IN  /\ searchRows' = rows
                /\ sResponse' = [status |-> 200,
                                 results |-> WithContext(Ranked(rows, preferredLevels,
                                                                sRequest.maxResults), rows)]
                /\ sPc' = "done"
       ELSE SearchFailed /\ UNCHANGED searchRows
    /\ UNCHANGED <<sRequest, preferredLevels>>
    /\ UNCHANGED <<apiKey, itemLimit, embedVars, chunkVars, uploadVars, replayVars, call>>

NextSearch ==
    \/ SearchParse
    \/ \E ok \in BOOLEAN : SearchEmbed(ok)
    \/ \E ok \in BOOLEAN : SearchConnectDb(ok)
    \/ \E ok \in BOOLEAN : SearchSelect(ok)

SpecSearch == InitSearch /\ [][NextSearch]_vars

\* -------------------------------------------------------- claims C13, C15

\* The search route answered with results.
SearchAnswered == sPc = "done" /\ sResponse.status = 200

\* The adjusted score of the candidate with the given id: its raw similarity
\* times the weight of its level, in units of 0.0000001.
AdjustedOf(id) ==
    LET row == CHOOSE r \in {searchRows[k] : k \in DOMAIN searchRows} : r.id = id
    IN  AdjustedScore(row.similarity, row.chunk_level, preferredLevels)

\* C13: the search route returns at most maxResults results, in
\* non-increasing order of adjusted score, chosen as the highest adjusted
\* scores of a candidate pool that holds at most 2 x maxResults candidates.
C13_TopAdjustedScoresInOrder ==
    SearchAnswered =>
        LET results == sResponse.results
            returned == {results[k].id : k \in DOMAIN results}
        IN  /\ Len(results) <= sRequest.maxResults
            /\ Len(searchRows) <= 2 * sRequest.maxResults
            /\ \A k \in DOMAIN results : \E j \in DOMAIN searchRows : searchRows[j].id = results[k].id
            /\ \A j, k \in DOMAIN results :
                   j < k => AdjustedOf(results[j].id) >= AdjustedOf(results[k].id)
            /\ \A k \in DOMAIN results : \A j \in DOMAIN searchRows :
                   searchRows[j].id \notin returned =>
                       AdjustedOf(searchRows[j].id) <= AdjustedOf(results[k].id)

\* The n smallest members of a set of ids.
Earliest(ids, n) == {i \in ids : Cardinality({j \in ids : j < i}) < n}

\* C15: when a hit has more than 3 children in the candidate pool used by the
\* search route, the children placed in its context are the 3 created
\* earliest (smallest creation order), whatever their similarity scores;
\* siblings likewise are the 2 created earliest.
C15_ContextKeepsEarliestCreated ==
    SearchAnswered =>
        \A k \in DOMAIN sResponse.results :
            LET hit == sResponse.results[k]
                pool == {searchRows[j] : j \in DOMAIN searchRows}
                context == {hit.context[j] : j \in DOMAIN hit.context}
                children == {r.id : r \in {p \in pool : p.parent_chunk_id = hit.id}}
                siblings == {r.id : r \in {p \in pool : /\ hit.parent_chunk_id # Null
                                                         /\ p.parent_chunk_id = hit.parent_chunk_id
                                                         /\ p.id # hit.id}}
            IN  /\ Cardinality(children) > 3 =>
                       {r.id : r \in {c \in context : c.parent_chunk_id = hit.id}}
                           = Earliest(children, 3)
                /\ Cardinality(siblings) > 2 =>
                       {r.id : r \in {c \in context : /\ c.parent_chunk_id = hit.parent_chunk_id
                                                       /\ c.id # hit.id}}
                           = Earliest(siblings, 2)

\* =================================================================
\* createMultiLevelChunks called twice on the same arguments
\* =================================================================

\* Line 187: let chunkCounter = 0, whatever an earlier call left.
CounterAtEntryKept(previous) == previous
CounterAtEntry(previous) == 0

InitTwice ==
    /\ apiKey \in BOOLEAN
    /\ itemLimit = UploadItems
    /\ EmbedIdle
    /\ ChunkStart
    /\ UploadIdle
    /\ SearchIdle
    /\ replay = "first"
    /\ tape = <<>>
    /\ firstPc = "none"
    /\ firstChunks = <<>>
    /\ CallIdle

\* The first call has returned or raised; the second call is entered with the
\* same plainText and originalMarkdown (lines 182-187).
CallAgain ==
    /\ replay = "first"
    /\ cPc \in {"returned", "raised"}
    /\ replay' = "second"
    /\ firstPc' = cPc
    /\ firstChunks' = allChunks
    /\ cPc' = "start"
    /\ cleanLen' = 0
    /\ timestampedLines' = <<>>
    /\ chapters' = <<>>
    /\ nextRow' = <<>>
    /\ cI' = 0
    /\ allChunks' = <<>>
    /\ chunkCounter' = CounterAtEntry(chunkCounter)
    /\ paragraphDocs' = <<>>
    /\ sentences' = <<>>
    /\ UNCHANGED <<plainLen, tape>>
    /\ UNCHANGED <<apiKey, itemLimit, embedVars, uploadVars, searchVars, call>>

NextTwice == Next \/ CallAgain

SpecTwice == InitTwice /\ [][NextTwice]_vars

\* ------------------------------------------------------------- claim C18

\* The second call has returned or raised.
SecondEnded == replay = "second" /\ cPc \in {"returned", "raised"}

\* The number of chunks of a level among chunks.
CountOfLevel(chunks, level) ==
    Cardinality({k \in DOMAIN chunks : chunks[k].chunk_level = level})

C30_EveryCandidateIsPreferred ==
    SearchAnswered =>
        /\ \A j \in DOMAIN searchRows :
               /\ searchRows[j].chunk_level \in {preferredLevels[k] : k \in DOMAIN preferredLevels}
               /\ PreferenceBoost(IsPreferred(searchRows[j].chunk_level, preferredLevels)) = 12
        /\ \A k \in DOMAIN sResponse.results :
               \E j \in DOMAIN searchRows :
                   /\ searchRows[j].id = sResponse.results[k].id
                   /\ sResponse.results[k].similarity =
                          ToFixed4(searchRows[j].similarity
                                       * BaseWeightOf(searchRows[j].chunk_level) * 12)

\* Results of two levels were ranked while a stored chunk of another level,
\* near enough to the query, was left out by the level filter.
C30_Witness ==
    /\ SearchAnswered
    /\ \E j, k \in DOMAIN sResponse.results :
           sResponse.results[j].chunk_level # sResponse.results[k].chunk_level
    /\ \E k \in DOMAIN db.rows :
           /\ SimilarityOf(db.rows[k]) > DefaultMinSimilarity
           /\ ~IsPreferred(db.rows[k].chunk_level, preferredLevels)

\* --------------------------------------------- claims C25, C26, C27, C29

\* The anchors at or before an offset.
AnchorsAtOrBefore(offset) ==
    {i \in DOMAIN timestampedLines : timestampedLines[i].charIndex <= offset}

\* The greatest element of a non-empty set of integers.
Greatest(S) == CHOOSE x \in S : \A y \in S : y <= x

\* C25: for a non-empty anchor list the time range of a paragraph or sentence
\* is (timestamp of the latest anchor at or before its start offset, timestamp
\* of the anchor right after that one), the end being 99:99:99 when there is
\* no later anchor, and the range is (00:00:00, 99:99:99) when no anchor is at
\* or before the offset.
C25_RangeFromLatestAnchorAtOrBefore ==
    timestampedLines # <<>> =>
        \A k \in DOMAIN allChunks :
            allChunks[k].chunk_level \in {"paragraph", "sentence"} =>
                LET before == AnchorsAtOrBefore(allChunks[k].char_start)
                    latest == Greatest(before)
                IN  IF before = {}
                    THEN /\ allChunks[k].timestamp_start = ZeroTs
                         /\ allChunks[k].timestamp_end = EndTs
                    ELSE /\ allChunks[k].timestamp_start = timestampedLines[latest].timestamp
                         /\ allChunks[k].timestamp_end =
                                IF latest < Len(timestampedLines)
                                THEN timestampedLines[latest + 1].timestamp
                                ELSE EndTs

\* The run returned a chunk that starts before the first anchor and one that
\* starts after the last anchor.
C25_Witness ==
    /\ cPc = "returned"
    /\ timestampedLines # <<>>
    /\ \E k \in DOMAIN allChunks :
           /\ allChunks[k].chunk_level \in {"paragraph", "sentence"}
           /\ AnchorsAtOrBefore(allChunks[k].char_start) = {}
           /\ allChunks[k].timestamp_end = EndTs
    /\ \E k \in DOMAIN allChunks :
           /\ allChunks[k].chunk_level \in {"paragraph", "sentence"}
           /\ AnchorsAtOrBefore(allChunks[k].char_start) = DOMAIN timestampedLines
           /\ allChunks[k].timestamp_start # ZeroTs

\* C26: the stages run strictly in the order timestamp extraction, chapter
\* segmentation, chunk creation: while extraction and segmentation have not
\* completed no chunk of any level exists (and no episode oracle was called,
\* which is what the episode chunk is built from).
C26_NoChunkBeforeSegmentationDone ==
    cPc \in {"start", "extract", "identify", "match", "boundaries"} => allChunks = <<>>

\* The length of the text a chapter's range selects from the transcript.
ChapterSpan(chapter) ==
    SubstringLength(OrElse(chapter.startCharIndex, 0),
                    OrElse(chapter.endCharIndex, plainLen), plainLen)

\* The number of chapters the topic loop has gone through.
ChaptersDone == IF cPc = "topics" THEN cI ELSE Len(chapters)

\* C27: a chapter yields exactly one topic chunk if and only if its span is at
\* least 200 characters, a span of exactly 200 included; a shorter chapter
\* yields none.
C27_TopicChunkIffSpanAtLeast200 ==
    cPc \in {"topics", "paragraphs", "sentences", "returned"} =>
        \A i \in 1..ChaptersDone :
            LET made == {k \in DOMAIN allChunks :
                            /\ allChunks[k].chunk_level = "topic"
                            /\ allChunks[k].source_index = i - 1}
            IN  IF ChapterSpan(chapters[i]) >= MinTopicLength
                THEN Cardinality(made) = 1
                ELSE made = {}

MaxLines == 2

Digits == {"0", "1", "2", "3", "4", "5", "6", "7", "8", "9"}

\* The character of s at position p, "" outside s.
CharAt(s, p) == IF p >= 1 /\ p <= Len(s) THEN s[p] ELSE ""

\* The number of characters of class C in a row from position p of s on.
RECURSIVE Run(_, _, _)
Run(s, p, C) == IF CharAt(s, p) \in C THEN 1 + Run(s, p + 1, C) ELSE 0

\* \d{1,2}:\d{2}:\d{2} at position p: the length of the match, 0 if none.
HMSWith(s, p, h) ==
    /\ \A k \in 0..(h - 1) : CharAt(s, p + k) \in Digits
    /\ CharAt(s, p + h) = ":"
    /\ CharAt(s, p + h + 1) \in Digits /\ CharAt(s, p + h + 2) \in Digits
    /\ CharAt(s, p + h + 3) = ":"
    /\ CharAt(s, p + h + 4) \in Digits /\ CharAt(s, p + h + 5) \in Digits
HMSAt(s, p) == IF HMSWith(s, p, 2) THEN 8 ELSE IF HMSWith(s, p, 1) THEN 7 ELSE 0

\* \d{1,2}:\d{2}:\d{2}(?:,\d{3})? at position p.
TimeAt(s, p) ==
    LET hms == HMSAt(s, p)
        millis == IF /\ CharAt(s, p + hms) = ","
                     /\ \A k \in 1..3 : CharAt(s, p + hms + k) \in Digits
                  THEN 4 ELSE 0
    IN  IF hms = 0 THEN 0 ELSE hms + millis

\* (?:\s*-->\s*\d{1,2}:\d{2}:\d{2}(?:,\d{3})?)? at position p.
ArrowAt(s, p) ==
    LET a == p + Run(s, p, {" "})
        b == a + 3 + Run(s, a + 3, {" "})
    IN  IF SubSeq(s, a, Min(a + 2, Len(s))) = <<"-", "-", ">">> /\ TimeAt(s, b) > 0
        THEN b + TimeAt(s, b) - p
        ELSE 0

\* The capture group at position p: a time with an optional range end, or a
\* bracketed or a parenthesised time.  The length of the match, 0 if none.
WrappedAt(s, p, open, close) ==
    IF CharAt(s, p) = open /\ HMSAt(s, p + 1) > 0 /\ CharAt(s, p + 1 + HMSAt(s, p + 1)) = close
    THEN HMSAt(s, p + 1) + 2 ELSE 0
GroupAt(s, p) ==
    IF TimeAt(s, p) > 0 THEN TimeAt(s, p) + ArrowAt(s, p + TimeAt(s, p))
    ELSE IF WrappedAt(s, p, "[", "]") > 0 THEN WrappedAt(s, p, "[", "]")
    ELSE WrappedAt(s, p, "(", ")")

\* Line 327-329: trimmedLine.match(/^(?:\d+\s*)?(...)/).  The optional prefix
\* is greedy: the matcher takes all the leading digits and the white space
\* after them, and on failure of the group gives them back one character at
\* a time, trying the empty prefix last.  The match is the one with the
\* longest prefix after which the group matches.
TimestampMatch(s) ==
    LET digits == Run(s, 1, Digits)
        longest == IF digits = 0 THEN 0 ELSE digits + Run(s, digits + 1, {" "})
        hits == {n \in 0..longest : GroupAt(s, n + 1) > 0}
        prefix == Greatest(hits)
    IN  IF hits = {} THEN [matched |-> FALSE, whole |-> 0, group |-> <<>>]
        ELSE [matched |-> TRUE, whole |-> prefix + GroupAt(s, prefix + 1),
              group |-> SubSeq(s, prefix + 1, prefix + GroupAt(s, prefix + 1))]

\* Lines 341 and 347: the offset of the next clean line.
AdvanceNoNewline(charIndex, text) == charIndex + Len(text)
Advance(charIndex, text) == charIndex + Len(text) + 1

\* cleanLines.join('\n')
RECURSIVE Join(_)
Join(cleanLines) ==
    IF cleanLines = <<>> THEN <<>>
    ELSE IF Len(cleanLines) = 1 THEN cleanLines[1]
    ELSE cleanLines[1] \o <<"\n">> \o Join(Tail(cleanLines))

\* Lines 319-351: the loop over the lines.
MinLineLength == 10
RECURSIVE ExtractLines(_, _, _, _)
ExtractLines(lines, anchors, cleanLines, charIndex) ==
    IF lines = <<>>
    THEN [cleanText |-> Join(cleanLines), timestampedLines |-> anchors]
    ELSE LET trimmedLine == Trim(Head(lines))
             timestampMatch == TimestampMatch(trimmedLine)
             textAfterTimestamp ==
                 Trim(SubSeq(trimmedLine, timestampMatch.whole + 1, Len(trimmedLine)))
         IN  IF trimmedLine = <<>>
             THEN ExtractLines(Tail(lines), anchors, cleanLines, charIndex)
             ELSE IF timestampMatch.matched
             THEN IF textAfterTimestamp # <<>>
                  THEN ExtractLines(Tail(lines),
                           Append(anchors,
                               [timestamp |-> normalizeTimestamp(timestampMatch.group),
                                text |-> textAfterTimestamp,
                                charIndex |-> charIndex]),
                           Append(cleanLines, textAfterTimestamp),
                           Advance(charIndex, textAfterTimestamp))
                  ELSE ExtractLines(Tail(lines), anchors, cleanLines, charIndex)
             ELSE IF Len(trimmedLine) > MinLineLength
             THEN ExtractLines(Tail(lines), anchors, Append(cleanLines, trimmedLine),
                               Advance(charIndex, trimmedLine))
             ELSE ExtractLines(Tail(lines), anchors, cleanLines, charIndex)

extractTimestampsAndCleanText(transcript) ==
    ExtractLines(Split(transcript, <<"\n">>), <<>>, <<>>, 0)

\* The lines a transcript is made of: a time with a two-digit hour and text, a
\* numbered cue, a bracketed time alone on its line, a parenthesised time
\* with white space around the line, a cue with a range, a line of text, a
\* line too short to keep and an empty line.
TranscriptLines ==
    {<<"1", "2", ":", "3", "4", ":", "5", "6", " ", "h", "i">>,
     <<"7", " ", "0", "1", ":", "0", "2", ":", "0", "3", " ", "y", "o">>,
     <<"[", "0", "0", ":", "0", "5", ":", "1", "0", "]">>,
     <<" ", "(", "1", ":", "0", "2", ":", "0", "3", ")", " ", "o", "k", " ">>,
     <<"0", "0", ":", "0", "0", ":", "0", "1", ",", "0", "0", "0", " ", "-", "-", ">", " ", "0", "0", ":", "0", "0", ":", "0", "4", ",", "0", "0", "0", " ", "a">>,
     <<"n", "o", " ", "t", "i", "m", "e", "s", "t", "a", "m", "p">>,
     <<"s", "h", "o", "r", "t">>,
     <<>>}

\* The transcripts the function is called on: at most MaxLines lines joined by
\* line feeds.
Transcripts ==
    {Join(ls) : ls \in UNION {[1..n -> TranscriptLines] : n \in 0..MaxLines}}

InitExtract == CallInit("extractTimestampsAndCleanText", Transcripts)

ExtractCall ==
    CallReturn("extractTimestampsAndCleanText",
               <<extractTimestampsAndCleanText(call.args)>>)

SpecExtract == InitExtract /\ [][ExtractCall]_vars

\* ------------------------------------------------- claims C22, C23, C24

Extracted == call.fn = "extractTimestampsAndCleanText" /\ call.returned

\* The lines of the transcript the function was called on.
InputLines == Split(call.args, <<"\n">>)

\* A line that begins, without a leading index number, with hh:mm:ss with a
\* two-digit hour, followed by white space and text.
IsPlainCue(line) ==
    /\ HMSWith(line, 1, 2)
    /\ CharAt(line, 9) = " "
    /\ Trim(SubSeq(line, 9, Len(line))) # <<>>

\* C22: a line that begins, with no leading index number, with hh:mm:ss with
\* a two-digit hour followed by text records an anchor whose timestamp is
\* exactly that hh:mm:ss.
C22_TwoDigitHourKept ==
    Extracted =>
        \A k \in DOMAIN InputLines :
            IsPlainCue(InputLines[k]) =>
                \E j \in DOMAIN call.value[1].timestampedLines :
                    /\ call.value[1].timestampedLines[j].timestamp = SubSeq(InputLines[k], 1, 8)
                    /\ call.value[1].timestampedLines[j].text
                           = Trim(SubSeq(InputLines[k], 9, Len(InputLines[k])))

\* C23: every line that matches a timestamp pattern records an anchor, a line
\* with only the timestamp and no text after it included.
C23_EveryTimestampLineRecordsAnchor ==
    Extracted =>
        Len(call.value[1].timestampedLines) =
            Cardinality({k \in DOMAIN InputLines : TimestampMatch(Trim(InputLines[k])).matched})

\* C24: the anchors are in non-decreasing charIndex order, and each charIndex
\* is exactly the offset at which the anchor's text begins, as a whole line,
\* in the returned clean text.
C24_CharIndexIsOffsetInCleanText ==
    Extracted =>
        LET anchors == call.value[1].timestampedLines
            cleanText == call.value[1].cleanText
        IN  /\ \A i, j \in DOMAIN anchors : i < j => anchors[i].charIndex <= anchors[j].charIndex
            /\ \A j \in DOMAIN anchors :
                   LET from == anchors[j].charIndex
                       to == from + Len(anchors[j].text)
                   IN  /\ from >= 0 /\ to <= Len(cleanText)
                       /\ SubSeq(cleanText, from + 1, to) = anchors[j].text
                       /\ from = 0 \/ cleanText[from] = "\n"
                       /\ to = Len(cleanText) \/ cleanText[to + 1] = "\n"

\* A transcript whose second clean line belongs to an anchor has been
\* processed.
C24_Witness ==
    /\ Extracted
    /\ \E j \in DOMAIN call.value[1].timestampedLines :
           call.value[1].timestampedLines[j].charIndex > 0

\* =================================================================
\* detectTopicBoundaries (lib/multiLevelChunking.ts)
\* =================================================================
\* A line is what the tests of the loop see of it: whether it holds a time
\* pattern, opens with a speaker name or is blank, and its length.  A line
\* that is not blank is taken to have no white space at its ends.

TimeGap == 1000
BreakGap == 1500
SubstantialLength == 50
MaxTopicLines == MaxLines + 1

\* lines[i].trim().length
TrimmedLength(line) == IF line.kind = "blank" THEN 0 ELSE line.length

\* Lines 144-159: isTopicBoundary for the line at index i (from 1), which
\* starts at currentPos, last being boundaries[boundaries.length - 1].
IsTopicBoundary(lines, i, currentPos, last) ==
    \/ lines[i].kind = "time" /\ currentPos - last > TimeGap
    \/ lines[i].kind = "speaker" /\ currentPos - last > MinBoundaryGap
    \/ /\ TrimmedLength(lines[i]) = 0
       /\ i < Len(lines)
       /\ TrimmedLength(lines[i + 1]) > SubstantialLength
       /\ currentPos - last > BreakGap

\* Lines 139-164: the loop, from the second line on.
RECURSIVE DetectLoop(_, _, _, _)
DetectLoop(lines, i, pos, boundaries) ==
    IF i > Len(lines) THEN boundaries
    ELSE LET currentPos == pos + lines[i - 1].length + 1
         IN  DetectLoop(lines, i + 1, currentPos,
                 IF IsTopicBoundary(lines, i, currentPos, boundaries[Len(boundaries)])
                 THEN Append(boundaries, currentPos)
                 ELSE boundaries)

detectTopicBoundaries(lines) == DetectLoop(lines, 2, 0, <<0>>)

\* The lines of the texts the function is called on: text of four lengths,
\* which put the next line 800, 1000, 1500 and 1600 characters further, a
\* line with a time, a line of a speaker and a blank line.
TopicLines ==
    {[kind |-> "text", length |-> 799], [kind |-> "text", length |-> 999],
     [kind |-> "text", length |-> 1499], [kind |-> "text", length |-> 1599],
     [kind |-> "time", length |-> 60],
     [kind |-> "speaker", length |-> 60], [kind |-> "blank", length |-> 0]}

TopicTexts == UNION {[1..n -> TopicLines] : n \in 1..MaxTopicLines}

InitBoundaries == CallInit("detectTopicBoundaries", TopicTexts)

BoundariesCall ==
    CallReturn("detectTopicBoundaries", detectTopicBoundaries(call.args))

SpecBoundaries == InitBoundaries /\ [][BoundariesCall]_vars

\* ------------------------------------------------------------- claim C28

\* The offset at which line i of the text starts.
RECURSIVE LineStart(_, _)
LineStart(lines, i) == IF i = 1 THEN 0 ELSE LineStart(lines, i - 1) + lines[i - 1].length + 1

\* The test the claim states for the line at index i.
IsTopicBoundaryAtLeast(lines, i, currentPos, last) ==
    \/ lines[i].kind = "time" /\ currentPos - last >= TimeGap
    \/ lines[i].kind = "speaker" /\ currentPos - last >= MinBoundaryGap
    \/ /\ TrimmedLength(lines[i]) = 0
       /\ i < Len(lines)
       /\ TrimmedLength(lines[i + 1]) > SubstantialLength
       /\ currentPos - last >= BreakGap

\* C28: detectTopicBoundaries declares a boundary at a line exactly when the
\* line is a time-pattern line at least 1000 characters after the last
\* boundary, a speaker-change line at least 800 after it, or a blank line
\* followed by a substantial line at least 1500 after it; the boundaries
\* start at 0, are strictly increasing, and no two consecutive ones are
\* closer than 800.
C28_BoundaryExactlyAtQualifiedLines ==
    (call.fn = "detectTopicBoundaries" /\ call.returned) =>
        LET boundaries == call.value
            declared == {boundaries[k] : k \in DOMAIN boundaries}
        IN  /\ boundaries[1] = 0
            /\ \A k \in 1..(Len(boundaries) - 1) :
                   boundaries[k + 1] - boundaries[k] >= MinBoundaryGap
            /\ \A i \in 2..Len(call.args) :
                   LET currentPos == LineStart(call.args, i)
                       last == Greatest({b \in declared : b < currentPos})
                   IN  currentPos \in declared
                           <=> IsTopicBoundaryAtLeast(call.args, i, currentPos, last)

\* =================================================================
\* Two POST requests on the one client of lib/db
\* =================================================================
\* Both requests have their chunks and embeddings and have passed connectDb
\* (line 50); from there on each await of client.query lets the other request
\* run.  The upload variables hold one value per request.  The client is one
\* session of the store: a transaction belongs to the session, not to the
\* request that sent BEGIN.

Requests == {1, 2}

\* The chunks of a request: an episode chunk and paragraphs without parent.
RequestChunks ==
    [k \in 1..(UploadItems + 1) |->
        Chunk(IF k = 1 THEN "episode" ELSE "paragraph", k - 1, Undefined, Undefined, Undefined,
              0, 850, ZeroTs, EndTs, Undefined, "", "")]

\* Lines 92-111 with the podcastId of line 51, which is the request's own.
RowOfPodcast(podcastId, chunk, parentId) ==
    [podcast_id |-> podcastId, id |-> Null, chunk_index |-> chunk.chunk_index,
     chunk_level |-> chunk.chunk_level, parent_chunk_id |-> parentId]

InitShared ==
    /\ apiKey = TRUE
    /\ itemLimit = UploadItems
    /\ EmbedIdle
    /\ ChunkIdle
    /\ uPc = [r \in Requests |-> "begin"]
    /\ uI = [r \in Requests |-> 0]
    /\ insertedChunks = [r \in Requests |-> <<>>]
    /\ db = EmptyDb
    /\ SearchIdle
    /\ ReplayOff
    /\ CallIdle

\* Lines 53-57: client.query('BEGIN') of request r.
SharedBegin(r, ok) ==
    /\ uPc[r] = "begin"
    /\ db' = IF ok THEN DbQuery(db, FirstStatement, <<>>) ELSE DbFailed(db, FirstStatement)
    /\ uPc' = [uPc EXCEPT ![r] = IF ok THEN "insert" ELSE "catch"]
    /\ UNCHANGED <<uI, insertedChunks>>
    /\ UNCHANGED <<apiKey, itemLimit, embedVars, chunkVars, searchVars, replayVars, call>>

\* Lines 59-116: one turn of the insert loop of request r.
SharedInsert(r, ok) ==
    /\ uPc[r] = "insert"
    /\ uI[r] < Len(RequestChunks)
    /\ LET chunk == RequestChunks[uI[r] + 1]
           actualParentId == ActualParentId(insertedChunks[r], chunk)
       IN  IF ok
           THEN /\ db' = DbQuery(db, "INSERT", RowOfPodcast(r, chunk, actualParentId))
                /\ insertedChunks' =
                       [insertedChunks EXCEPT
                            ![r] = Store(insertedChunks[r], chunk.chunk_index, db.nextId)]
                /\ uI' = [uI EXCEPT ![r] = uI[r] + 1]
                /\ UNCHANGED uPc
           ELSE /\ db' = DbFailed(db, "INSERT")
                /\ uPc' = [uPc EXCEPT ![r] = "catch"]
                /\ UNCHANGED <<uI, insertedChunks>>
    /\ UNCHANGED <<apiKey, itemLimit, embedVars, chunkVars, searchVars, replayVars, call>>

\* Lines 118-135: client.query('COMMIT') of request r and its response.
SharedCommit(r, ok) ==
    /\ uPc[r] = "insert"
    /\ uI[r] = Len(RequestChunks)
    /\ db' = IF ok THEN DbQuery(db, "COMMIT", <<>>) ELSE DbFailed(db, "COMMIT")
    /\ uPc' = [uPc EXCEPT ![r] = IF ok THEN "done" ELSE "catch"]
    /\ UNCHANGED <<uI, insertedChunks>>
    /\ UNCHANGED <<apiKey, itemLimit, embedVars, chunkVars, searchVars, replayVars, call>>

\* Lines 137-151: client.query('ROLLBACK') of request r, then its error
\* response.
SharedCatch(r, ok) ==
    /\ uPc[r] = "catch"
    /\ db' = IF ok THEN DbQuery(db, "ROLLBACK", <<>>) ELSE DbFailed(db, "ROLLBACK")
    /\ uPc' = [uPc EXCEPT ![r] = "failed"]
    /\ UNCHANGED <<uI, insertedChunks>>
    /\ UNCHANGED <<apiKey, itemLimit, embedVars, chunkVars, searchVars, replayVars, call>>

NextShared ==
    \E r \in Requests, ok \in BOOLEAN :
        \/ SharedBegin(r, ok)
        \/ SharedInsert(r, ok)
        \/ SharedCommit(r, ok)
        \/ SharedCatch(r, ok)

SpecShared == InitShared /\ [][NextShared]_vars

\* ------------------------------------------------------------- claim C21

\* The durable rows of the transcript of request r.
DurableRowsOf(r) == {k \in DOMAIN db.rows : db.rows[k].podcast_id = r}

\* C21: when two upload requests interleave their statements on the shared
\* client each transcript is still stored all-or-nothing: once a request has
\* answered, the store holds every row of its transcript or none, whatever
\* the other request committed or rolled back.
C21_InterleavedUploadsAllOrNothing ==
    \A r \in Requests :
        uPc[r] \in {"done", "failed"} =>
            Cardinality(DurableRowsOf(r)) \in {0, Len(RequestChunks)}

====
